---- MODULE Spec2Model ----
(***************************************************************************)
(* A model of ci-bench-runner: the persistent store (db.rs), the event     *)
(* queue and its dispatcher, the three webhook handlers and the bench      *)
(* pipeline (job/bench_pr.rs).                                             *)
(*                                                                         *)
(* Environment assumptions, stated once:                                   *)
(*  - OffsetDateTime::now_utc() reads a wall clock that never goes back,   *)
(*    and an enqueue_event call takes at least one clock unit.             *)
(*  - created_utc values are compared as instants.                         *)
(*  - Uuid::new_v4() returns a fresh identifier.                           *)
(***************************************************************************)
EXTENDS Integers, Sequences, FiniteSets, TLC

\* ------------------------------------------------------------------ bounds
MaxEvents == 2
MaxTicks == 1
MaxCrashes == 1
MaxFaults == 1
MaxRuns == 3
MaxCalls == 4
MaxClock == 1
MaxJobs == 2
MaxComparisons == 2
MaxBenchRuns == 3

\* Option<T>: None is the empty set, Some(x) the singleton.
None == {}
Some(x) == {x}

VARIABLES
    clock,          \* the wall clock read by OffsetDateTime::now_utc()
    nextEvent,      \* number of event ids handed out by Uuid::new_v4()
    nextJob,        \* number of job ids handed out by Uuid::new_v4()
    event_queue,    \* table event_queue, rows in insertion (rowid) order
    jobs,           \* table jobs, a set of rows
    journal,        \* rollback journal of the open transaction, or None
    mutex,          \* holder of the connection mutex (Option of a job id)
    recv,           \* enqueue_event calls waiting for the lock: [id, now]
    inflight,       \* dispatcher: handler invocations in progress
    crashes,        \* process crashes so far
    faults,         \* store errors injected so far
    enqLog,         \* history: ids of completed enqueue_event calls, in order
    overlapped,     \* history: two enqueue_event calls overlapped in time
    bindLog,        \* history: [id, created_utc] of events, in binding order
    drained,        \* history: ids in the order next/delete returned them
    jobEvent,       \* history: job id -> the event id it was created for
    failed,         \* history: events whose handler returned Err
    interrupted     \* history: events a crash cut off between binding and deletion

VARIABLES
    comparison_runs,  \* table comparison_runs, rows in insertion order
    scenario_diffs,   \* table scenario_diffs, rows in insertion order
    result_comments,  \* table result_comments, rows in insertion order
    comments,         \* platform: comments[i] is the PR of the comment with id i
    commit_status,    \* platform: the last status set on each commit
    bp,               \* the bench_pr invocation: position and locals
    trace,            \* history: the effects of the current (or last) run, in order
    benched,          \* history: commit pairs the runner was invoked for
    succeeded,        \* history: PR numbers with a run that returned Ok after commenting
    runs,             \* bench_pr invocations so far
    bcrashes,         \* process crashes during bench_pr so far
    bfaults           \* store and platform errors injected so far

benchVars == <<comparison_runs, scenario_diffs, result_comments, comments, commit_status, bp,
               trace, benched, succeeded, runs, bcrashes, bfaults>>

queueVars == <<clock, nextEvent, nextJob, event_queue, jobs, journal, mutex, recv, inflight,
               crashes, faults, enqLog, overlapped, bindLog, drained, jobEvent,
               failed, interrupted>>

VARIABLES
    hv              \* the last webhook handled: [kind, payload, platform, out]

handlerVars == <<hv>>

VARIABLES
    call,           \* the last direct call of a store operation, and its count
    bench_runs,     \* table bench_runs, rows in insertion order
    bench_results,  \* table bench_results, rows in insertion order
    stored          \* history: the arguments of each store_comparison_result

storeVars == <<call, bench_runs, bench_results, stored>>

vars == <<queueVars, benchVars, handlerVars, storeVars>>

\* What each part of the system leaves alone.
notQueue == <<benchVars, handlerVars, storeVars>>
notBench == <<queueVars, handlerVars, storeVars>>
notHandlers == <<queueVars, benchVars, storeVars>>

\* ------------------------------------------------------------ store (db.rs)

\* Db::enqueue_event, the INSERT INTO event_queue.
InsertEvent(q, id, now) ==
    Append(q, [id |-> id, job_id |-> None, created_utc |-> now])

MinCreated(q) ==
    CHOOSE t \in {q[i].created_utc : i \in 1..Len(q)} :
        \A i \in 1..Len(q) : t <= q[i].created_utc

MaxCreated(q) ==
    CHOOSE t \in {q[i].created_utc : i \in 1..Len(q)} :
        \A i \in 1..Len(q) : t >= q[i].created_utc

\* A plausible bug: the ORDER BY is missing.
NextQueuedEventsAny(q) == {q[i] : i \in 1..Len(q)}

\* A plausible bug: ORDER BY created_utc DESC.
NextQueuedEventsDesc(q) ==
    {q[i] : i \in {k \in 1..Len(q) : q[k].created_utc = MaxCreated(q)}}

\* Db::next_queued_event: SELECT * FROM event_queue ORDER BY created_utc LIMIT 1.
\* The rows the query may return: SQL leaves the order among equal keys open.
NextQueuedEvents(q) ==
    {q[i] : i \in {k \in 1..Len(q) : q[k].created_utc = MinCreated(q)}}

\* A plausible bug: the job is created already stamped.
InsertJobStamped(js, id, event_created_utc, now) ==
    js \cup {[id |-> id, event_queued_utc |-> event_created_utc,
              created_utc |-> now, finished_utc |-> Some(now)]}

\* Db::new_job_for_event, the INSERT INTO jobs.
InsertJob(js, id, event_created_utc, now) ==
    js \cup {[id |-> id, event_queued_utc |-> event_created_utc,
              created_utc |-> now, finished_utc |-> None]}

\* A plausible bug: the UPDATE matches no row.
BindNothing(q, job_id, event_id) == q

\* A plausible bug: the UPDATE addresses the first row, whatever its id.
BindFirst(q, job_id, event_id) ==
    [i \in 1..Len(q) |-> IF i = 1 THEN [q[i] EXCEPT !.job_id = Some(job_id)] ELSE q[i]]

\* A plausible bug: the UPDATE has lost its WHERE clause.
BindAll(q, job_id, event_id) ==
    [i \in 1..Len(q) |-> [q[i] EXCEPT !.job_id = Some(job_id)]]

\* Db::new_job_for_event, UPDATE event_queue SET job_id = ? WHERE id = ?.
BindEvent(q, job_id, event_id) ==
    [i \in 1..Len(q) |->
        IF q[i].id = event_id THEN [q[i] EXCEPT !.job_id = Some(job_id)] ELSE q[i]]

\* A plausible bug: the two statements run outside a transaction, so an error
\* after the first leaves it in place.
RollbackNothing(cur, snap) == cur

\* conn.transaction(..): on error (or a crash) the connection returns to the
\* state at BEGIN.
Rollback(cur, snap) == snap

\* A plausible bug: the UPDATE matches no row.
StampNothing(js, id, now) == js

\* A plausible bug: the UPDATE has lost its WHERE clause.
StampAll(js, id, now) == {[j EXCEPT !.finished_utc = Some(now)] : j \in js}

\* Db::job_finished: UPDATE jobs SET finished_utc = ? WHERE id = ?.
StampFinished(js, id, now) ==
    {IF j.id = id THEN [j EXCEPT !.finished_utc = Some(now)] ELSE j : j \in js}

\* A plausible bug: the DELETE removes the oldest row, whatever its id.
RemoveOldest(q, id) == IF q = <<>> THEN q ELSE Tail(q)

\* Db::delete_event: DELETE FROM event_queue WHERE id = ?.
RemoveEvent(q, id) == SelectSeq(q, LAMBDA e : e.id # id)

\* Db::queued_event_count.
QueuedEventCount(q) == Len(q)

\* ------------------------------------------------------------------- Init

QueueInit ==
    /\ clock = 0
    /\ nextEvent = 0
    /\ nextJob = 0
    /\ event_queue = <<>>
    /\ jobs = {}
    /\ journal = None
    /\ mutex = None
    /\ recv = {}
    /\ inflight = {}
    /\ crashes = 0
    /\ faults = 0
    /\ enqLog = <<>>
    /\ overlapped = FALSE
    /\ bindLog = <<>>
    /\ drained = <<>>
    /\ jobEvent = <<>>
    /\ failed = {}
    /\ interrupted = {}

PrNumbers == {1, 2}
Commits == {"a", "b"}
Branches == {"main", "dev"}

IdleBp ==
    [pc |-> "idle", pr |-> 0, base_branch |-> "", base_sha |-> "", cand_sha |-> "",
     cmp |-> "none", result |-> "none", cached |-> None, cid |-> None, ret |-> "none",
     hadRun |-> FALSE, hadStored |-> FALSE, hadSuccess |-> FALSE,
     postFailed |-> {}, why |-> "none"]

BenchInit ==
    /\ comparison_runs = <<>>
    /\ scenario_diffs = <<>>
    /\ result_comments = <<>>
    /\ comments = <<>>
    /\ commit_status = [c \in Commits |-> "none"]
    /\ bp = IdleBp
    /\ trace = <<>>
    /\ benched = {}
    /\ succeeded = {}
    /\ runs = 0
    /\ bcrashes = 0
    /\ bfaults = 0

HandlerInit == hv = [kind |-> "none"]

StoreInit ==
    /\ call = [n |-> 0, op |-> "none"]
    /\ bench_runs = <<>>
    /\ bench_results = <<>>
    /\ stored = {}

Init == QueueInit /\ BenchInit /\ HandlerInit /\ StoreInit

\* ------------------------------------------------- receivers: enqueue_event

\* Wall-clock time passes.
Tick ==
    /\ clock - Len(enqLog) < MaxTicks
    /\ clock' = clock + 1
    /\ UNCHANGED notQueue
    /\ UNCHANGED <<failed, interrupted>>
    /\ UNCHANGED <<nextEvent, nextJob, event_queue, jobs, journal, mutex, recv,
                   inflight, crashes, faults, enqLog, overlapped, bindLog,
                   drained, jobEvent>>

\* enqueue_event up to the lock: the id and `now` are taken before
\* self.sqlite.lock().await. The HTTP receiver runs one call per webhook,
\* and calls may overlap.
EnqueueStart ==
    /\ nextEvent < MaxEvents
    /\ nextEvent' = nextEvent + 1
    /\ recv' = recv \cup {[id |-> nextEvent + 1, now |-> clock]}
    /\ overlapped' = (overlapped \/ recv # {})
    /\ UNCHANGED notQueue
    /\ UNCHANGED <<failed, interrupted>>
    /\ UNCHANGED <<clock, nextJob, event_queue, jobs, journal, mutex, inflight,
                   crashes, faults, enqLog, bindLog, drained, jobEvent>>

\* enqueue_event from the lock on: the INSERT, and Ok(id).
EnqueueInsert(c) ==
    /\ c \in recv
    /\ mutex = None
    /\ event_queue' = InsertEvent(event_queue, c.id, c.now)
    /\ enqLog' = Append(enqLog, c.id)
    /\ recv' = recv \ {c}
    /\ clock' = clock + 1
    /\ UNCHANGED notQueue
    /\ UNCHANGED <<failed, interrupted>>
    /\ UNCHANGED <<nextEvent, nextJob, jobs, journal, mutex, inflight, crashes,
                   faults, overlapped, bindLog, drained, jobEvent>>

\* ------------------------------------------------------------- dispatcher

\* The dispatcher's loop takes the next event only when no handler invocation
\* is in progress.
CanTakeNextAlways == TRUE

CanTakeNext == inflight = {}

\* next_queued_event, called by the dispatcher's loop.
DispatchNext ==
    /\ CanTakeNext
    /\ mutex = None
    /\ Len(event_queue) > 0
    /\ \E e \in NextQueuedEvents(event_queue) :
          inflight' = inflight \cup
              {[event_id |-> e.id, event_created_utc |-> e.created_utc,
                job_id |-> 0, pc |-> "bind", ret |-> "none"]}
    /\ UNCHANGED notQueue
    /\ UNCHANGED <<failed, interrupted>>
    /\ UNCHANGED <<clock, nextEvent, nextJob, event_queue, jobs, journal, mutex, recv,
                   crashes, faults, enqLog, overlapped, bindLog, drained, jobEvent>>

Step(d, pc, job) == (inflight \ {d}) \cup {[d EXCEPT !.pc = pc, !.job_id = job]}

\* new_job_for_event: Uuid::new_v4(), lock, BEGIN.
NewJobBegin(d) ==
    /\ d \in inflight /\ d.pc = "bind"
    /\ mutex = None
    /\ nextJob' = nextJob + 1
    /\ mutex' = Some(nextJob + 1)
    /\ journal' = Some([event_queue |-> event_queue, jobs |-> jobs])
    /\ inflight' = Step(d, "tx_insert", nextJob + 1)
    /\ UNCHANGED notQueue
    /\ UNCHANGED <<failed, interrupted>>
    /\ UNCHANGED <<clock, nextEvent, event_queue, jobs, recv, crashes, faults, enqLog,
                   overlapped, bindLog, drained, jobEvent>>

\* new_job_for_event: now_utc() and the INSERT INTO jobs.
NewJobInsert(d) ==
    /\ d \in inflight /\ d.pc = "tx_insert"
    /\ jobs' = InsertJob(jobs, d.job_id, d.event_created_utc, clock)
    /\ jobEvent' = Append(jobEvent, [job |-> d.job_id, event |-> d.event_id])
    /\ inflight' = Step(d, "tx_update", d.job_id)
    /\ UNCHANGED notQueue
    /\ UNCHANGED <<failed, interrupted>>
    /\ UNCHANGED <<clock, nextEvent, nextJob, event_queue, journal, mutex, recv, crashes,
                   faults, enqLog, overlapped, bindLog, drained>>

\* new_job_for_event: the UPDATE event_queue.
NewJobUpdate(d) ==
    /\ d \in inflight /\ d.pc = "tx_update"
    /\ event_queue' = BindEvent(event_queue, d.job_id, d.event_id)
    /\ inflight' = Step(d, "tx_commit", d.job_id)
    /\ UNCHANGED notQueue
    /\ UNCHANGED <<failed, interrupted>>
    /\ UNCHANGED <<clock, nextEvent, nextJob, jobs, journal, mutex, recv, crashes, faults,
                   enqLog, overlapped, bindLog, drained, jobEvent>>

\* new_job_for_event: COMMIT, unlock, Ok(id).
NewJobCommit(d) ==
    /\ d \in inflight /\ d.pc = "tx_commit"
    /\ journal' = None
    /\ mutex' = None
    /\ bindLog' = Append(bindLog, [id |-> d.event_id, created_utc |-> d.event_created_utc])
    /\ inflight' = Step(d, "handle", d.job_id)
    /\ UNCHANGED notQueue
    /\ UNCHANGED <<failed, interrupted>>
    /\ UNCHANGED <<clock, nextEvent, nextJob, event_queue, jobs, recv, crashes,
                   faults, enqLog, overlapped, drained, jobEvent>>

\* new_job_for_event: a statement or the commit fails; the transaction rolls
\* back and the error is returned. The dispatcher's loop starts over.
NewJobFail(d) ==
    /\ d \in inflight /\ d.pc \in {"tx_insert", "tx_update", "tx_commit"}
    /\ faults < MaxFaults
    /\ faults' = faults + 1
    /\ \E snap \in journal :
          /\ event_queue' = Rollback(event_queue, snap.event_queue)
          /\ jobs' = Rollback(jobs, snap.jobs)
    /\ journal' = None
    /\ mutex' = None
    /\ inflight' = inflight \ {d}
    /\ UNCHANGED notQueue
    /\ UNCHANGED <<failed, interrupted>>
    /\ UNCHANGED <<clock, nextEvent, nextJob, recv, crashes, enqLog, overlapped, bindLog,
                   drained, jobEvent>>

\* The handler named by the event kind runs and returns, Ok or Err; on Err the
\* dispatcher logs the error and goes on as for Ok.
HandlerReturn(d) ==
    /\ d \in inflight /\ d.pc = "handle"
    /\ \E ret \in {"Ok", "Err"} :
          /\ inflight' = (inflight \ {d}) \cup {[d EXCEPT !.pc = "finish", !.ret = ret]}
          /\ failed' = IF ret = "Err" THEN failed \cup {d.event_id} ELSE failed
    /\ UNCHANGED notQueue
    /\ UNCHANGED interrupted
    /\ UNCHANGED <<clock, nextEvent, nextJob, event_queue, jobs, journal, mutex, recv,
                   crashes, faults, enqLog, overlapped, bindLog, drained, jobEvent>>

\* job_finished, called by the dispatcher's loop.
JobFinished(d) ==
    /\ d \in inflight /\ d.pc = "finish"
    /\ mutex = None
    /\ jobs' = StampFinished(jobs, d.job_id, clock)
    /\ inflight' = Step(d, "delete", d.job_id)
    /\ UNCHANGED notQueue
    /\ UNCHANGED <<failed, interrupted>>
    /\ UNCHANGED <<clock, nextEvent, nextJob, event_queue, journal, mutex, recv,
                   crashes, faults, enqLog, overlapped, bindLog, drained, jobEvent>>

\* delete_event, called by the dispatcher's loop.
DeleteEvent(d) ==
    /\ d \in inflight /\ d.pc = "delete"
    /\ mutex = None
    /\ event_queue' = RemoveEvent(event_queue, d.event_id)
    /\ drained' = Append(drained, d.event_id)
    /\ inflight' = inflight \ {d}
    /\ UNCHANGED notQueue
    /\ UNCHANGED <<failed, interrupted>>
    /\ UNCHANGED <<clock, nextEvent, nextJob, jobs, journal, mutex, recv, crashes,
                   faults, enqLog, overlapped, bindLog, jobEvent>>

\* The process dies and is started again: an open transaction is rolled back
\* by the database, everything in memory is lost, the tables stay.
Crash ==
    /\ crashes < MaxCrashes
    /\ inflight # {} \/ recv # {}
    /\ crashes' = crashes + 1
    /\ event_queue' = IF journal = None THEN event_queue
                      ELSE Rollback(event_queue, (CHOOSE s \in journal : TRUE).event_queue)
    /\ jobs' = IF journal = None THEN jobs
               ELSE Rollback(jobs, (CHOOSE s \in journal : TRUE).jobs)
    /\ journal' = None
    /\ mutex' = None
    /\ recv' = {}
    /\ inflight' = {}
    /\ interrupted' = interrupted \cup
          {d.event_id : d \in {x \in inflight : x.pc \in {"handle", "finish", "delete"}}}
    /\ UNCHANGED notQueue
    /\ UNCHANGED failed
    /\ UNCHANGED <<clock, nextEvent, nextJob, faults, enqLog, overlapped, bindLog, drained,
                   jobEvent>>

QueueNext ==
    \/ Tick
    \/ EnqueueStart
    \/ \E c \in recv : EnqueueInsert(c)
    \/ DispatchNext
    \/ \E d \in inflight : NewJobBegin(d)
    \/ \E d \in inflight : NewJobInsert(d)
    \/ \E d \in inflight : NewJobUpdate(d)
    \/ \E d \in inflight : NewJobCommit(d)
    \/ \E d \in inflight : NewJobFail(d)
    \/ \E d \in inflight : HandlerReturn(d)
    \/ \E d \in inflight : JobFinished(d)
    \/ \E d \in inflight : DeleteEvent(d)
    \/ Crash

Next == QueueNext

Spec == Init /\ [][Next]_vars

\* The dispatcher's loop keeps running, and handlers terminate: a step of the
\* loop that stays possible is eventually taken.
DispatcherStep ==
    \/ DispatchNext
    \/ \E d \in inflight : NewJobBegin(d)
    \/ \E d \in inflight : NewJobInsert(d)
    \/ \E d \in inflight : NewJobUpdate(d)
    \/ \E d \in inflight : NewJobCommit(d)
    \/ \E d \in inflight : HandlerReturn(d)
    \/ \E d \in inflight : JobFinished(d)
    \/ \E d \in inflight : DeleteEvent(d)

SpecFair == Init /\ [][Next]_vars /\ WF_vars(DispatcherStep)

\* --------------------------------------- the store's queue operations, alone

\* Each operation of Db called directly, by one caller, in any order and with
\* any id, as the tests of db.rs do. A call holds the connection mutex from
\* its first statement to its last, so it is one step here.

HasEvent(q, id) == \E i \in 1..Len(q) : q[i].id = id

EventIds == 1..MaxEvents
JobIds == 1..MaxJobs

Called(op, id, before) ==
    call' = [n |-> call.n + 1, op |-> op, id |-> id, before |-> before]

CanCall == call.n < MaxCalls /\ inflight = {} /\ recv = {} /\ crashes = 0

queueHistory == <<recv, inflight, crashes, faults, enqLog, overlapped, bindLog, drained,
                  failed, interrupted, journal, mutex>>

StoreTick ==
    /\ CanCall
    /\ clock < MaxClock
    /\ clock' = clock + 1
    /\ UNCHANGED <<nextEvent, nextJob, event_queue, jobs, jobEvent, call>>
    /\ UNCHANGED queueHistory
    /\ UNCHANGED <<benchVars, handlerVars, bench_runs, bench_results, stored>>

\* enqueue_event(event, payload) -> Ok(id)
CallEnqueueEvent ==
    /\ CanCall
    /\ nextEvent < MaxEvents
    /\ nextEvent' = nextEvent + 1
    /\ event_queue' = InsertEvent(event_queue, nextEvent + 1, clock)
    /\ Called("enqueue_event", nextEvent + 1, None)
    /\ UNCHANGED <<clock, nextJob, jobs, jobEvent>>
    /\ UNCHANGED queueHistory
    /\ UNCHANGED <<benchVars, handlerVars, bench_runs, bench_results, stored>>

\* new_job_for_event(event_id, event_created_utc) -> Ok(id): the INSERT and
\* the UPDATE both succeed, whether or not the UPDATE matches a row.
CallNewJobForEvent(event_id) ==
    /\ CanCall
    /\ nextJob < MaxJobs
    /\ nextJob' = nextJob + 1
    /\ \E event_created_utc \in
             IF HasEvent(event_queue, event_id)
             THEN {event_queue[i].created_utc :
                      i \in {k \in 1..Len(event_queue) : event_queue[k].id = event_id}}
             ELSE {0} :
          jobs' = InsertJob(jobs, nextJob + 1, event_created_utc, clock)
    /\ event_queue' = BindEvent(event_queue, nextJob + 1, event_id)
    /\ jobEvent' = Append(jobEvent, [job |-> nextJob + 1, event |-> event_id])
    /\ Called("new_job_for_event", event_id,
              {TRUE : i \in {k \in 1..Len(event_queue) : event_queue[k].id = event_id}})
    /\ UNCHANGED <<clock, nextEvent>>
    /\ UNCHANGED queueHistory
    /\ UNCHANGED <<benchVars, handlerVars, bench_runs, bench_results, stored>>

\* job_finished(id) -> Ok(())
CallJobFinished(id) ==
    /\ CanCall
    /\ jobs' = StampFinished(jobs, id, clock)
    /\ Called("job_finished", id, UNION {j.finished_utc : j \in {x \in jobs : x.id = id}})
    /\ UNCHANGED <<clock, nextEvent, nextJob, event_queue, jobEvent>>
    /\ UNCHANGED queueHistory
    /\ UNCHANGED <<benchVars, handlerVars, bench_runs, bench_results, stored>>

\* delete_event(id) -> Ok(())
CallDeleteEvent(id) ==
    /\ CanCall
    /\ event_queue' = RemoveEvent(event_queue, id)
    /\ Called("delete_event", id,
              {TRUE : i \in {k \in 1..Len(event_queue) : event_queue[k].id = id}})
    /\ UNCHANGED <<clock, nextEvent, nextJob, jobs, jobEvent>>
    /\ UNCHANGED queueHistory
    /\ UNCHANGED <<benchVars, handlerVars, bench_runs, bench_results, stored>>

StoreNext ==
    \/ StoreTick
    \/ CallEnqueueEvent
    \/ \E event_id \in EventIds : CallNewJobForEvent(event_id)
    \/ \E id \in JobIds : CallJobFinished(id)
    \/ \E id \in EventIds : CallDeleteEvent(id)

SpecStore == Init /\ [][StoreNext]_vars

\* ------------------------------------------------ store (db.rs), comparisons

FirstOf(rows, Match(_)) ==
    IF \E i \in 1..Len(rows) : Match(rows[i])
    THEN Some(rows[CHOOSE i \in 1..Len(rows) :
                  Match(rows[i]) /\ \A k \in 1..(i - 1) : ~Match(rows[k])])
    ELSE None

\* `diff.scenario_kind as i64`: the discriminant of the enum.
KindAsInt(kind) == IF kind = "Icount" THEN 0 ELSE 1

\* impl TryFrom<i64> for ScenarioKind: Ok for 0, an error otherwise.
KindTryFrom(value) == IF value = 0 THEN Some("Icount") ELSE None

\* json!(scenarios_missing): a JSON array of JSON strings.
Json(names) ==
    [kind |-> "array",
     items |-> [i \in 1..Len(names) |-> [kind |-> "string", value |-> names[i]]]]

\* serde_json::from_str::<Vec<String>>: Ok for an array of strings only.
FromJson(v) ==
    IF v.kind = "array" /\ \A i \in 1..Len(v.items) : v.items[i].kind = "string"
    THEN Some([i \in 1..Len(v.items) |-> v.items[i].value])
    ELSE None

\* A plausible bug: the empty list stored as the JSON array [].
ScenariosMissingAlwaysJson(scenarios_missing) == Some(Json(scenarios_missing))

\* store_comparison_result: None for the empty list, else the JSON text.
ScenariosMissingColumn(scenarios_missing) ==
    IF scenarios_missing = <<>> THEN None ELSE Some(Json(scenarios_missing))

\* comparison_result: NULL reads as the empty list, else the parsed JSON
\* (None here when the JSON is invalid, an error in the code).
ReadScenariosMissing(column) ==
    IF column = None THEN Some(<<>>) ELSE UNION {FromJson(v) : v \in column}

\* A plausible bug: the comparison is not written to the store.
StoreComparisonResultDropped(cruns, id, baseline_commit, candidate_commit, scenarios_missing) ==
    cruns

\* A plausible bug: the two commits bound in the wrong order.
StoreComparisonResultSwapped(cruns, id, baseline_commit, candidate_commit, scenarios_missing) ==
    Append(cruns, [id |-> id,
                   baseline_commit |-> candidate_commit,
                   candidate_commit |-> baseline_commit,
                   scenarios_missing_in_baseline |-> None])

\* Db::store_comparison_result: the INSERT INTO comparison_runs.
StoreComparisonResult(cruns, id, baseline_commit, candidate_commit, scenarios_missing) ==
    Append(cruns, [id |-> id,
                  baseline_commit |-> baseline_commit,
                  candidate_commit |-> candidate_commit,
                  scenarios_missing_in_baseline |->
                      ScenariosMissingColumn(scenarios_missing)])

\* Db::store_comparison_result: the INSERT INTO scenario_diffs, per diff.
InsertScenarioDiffs(rows, id, diffs) ==
    rows \o [i \in 1..Len(diffs) |->
                [comparison_run_id |-> id,
                 scenario_name |-> diffs[i].scenario_name,
                 scenario_kind |-> KindAsInt(diffs[i].scenario_kind),
                 baseline_result |-> diffs[i].baseline_result,
                 candidate_result |-> diffs[i].candidate_result,
                 significance_threshold |-> diffs[i].significance_threshold,
                 cachegrind_diff |-> diffs[i].cachegrind_diff]]

\* #[derive(sqlx::FromRow)] for ScenarioDiff: the row read back, None when
\* the kind is not one of the enum's.
ScenarioDiffFromRow(row) ==
    {[scenario_name |-> row.scenario_name,
      scenario_kind |-> kind,
      baseline_result |-> row.baseline_result,
      candidate_result |-> row.candidate_result,
      significance_threshold |-> row.significance_threshold,
      cachegrind_diff |-> row.cachegrind_diff] : kind \in KindTryFrom(row.scenario_kind)}

\* comparison_result: SELECT * FROM scenario_diffs WHERE comparison_run_id = ?.
SelectScenarioDiffs(rows, id) == SelectSeq(rows, LAMBDA r : r.comparison_run_id = id)

\* comparison_result, from the row of comparison_runs on: Some(CompareResult),
\* and None also where the code returns an error (invalid JSON or kind).
CompareResultOf(run, rows) ==
    LET selected == SelectScenarioDiffs(rows, run.id)
    IN  IF \E i \in 1..Len(selected) : ScenarioDiffFromRow(selected[i]) = None
        THEN None
        ELSE {[diffs |-> [i \in 1..Len(selected) |->
                            CHOOSE d \in ScenarioDiffFromRow(selected[i]) : TRUE],
               scenarios_missing_in_baseline |-> missing] :
                 missing \in ReadScenariosMissing(run.scenarios_missing_in_baseline)}

\* A plausible bug: the two commits bound in the wrong order.
ComparisonResultSwapped(cruns, rows, baseline_commit, candidate_commit) ==
    UNION {CompareResultOf(run, rows) :
              run \in FirstOf(cruns, LAMBDA r : r.baseline_commit = candidate_commit
                                             /\ r.candidate_commit = baseline_commit)}

\* Db::comparison_result: SELECT .. WHERE baseline_commit = ? AND
\* candidate_commit = ?, fetch_optional.
ComparisonResult(cruns, rows, baseline_commit, candidate_commit) ==
    UNION {CompareResultOf(run, rows) :
              run \in FirstOf(cruns, LAMBDA r : r.baseline_commit = baseline_commit
                                             /\ r.candidate_commit = candidate_commit)}

\* ------------------------------------------------ store (db.rs), bench runs

\* Db::store_run_results: the INSERT INTO bench_runs.
InsertBenchRun(rows, id, now) == Append(rows, [id |-> id, created_utc |-> now])

\* Db::store_run_results: the INSERT INTO bench_results, per (name, result).
InsertBenchResults(rows, id, icount_results) ==
    rows \o [i \in 1..Len(icount_results) |->
                [bench_run_id |-> id,
                 name |-> icount_results[i][1],
                 result |-> icount_results[i][2]]]

\* ORDER BY created_utc: the rows by ascending created_utc, rows of equal
\* created_utc in table order.
RECURSIVE OrderByCreated(_)
OrderByCreated(rows) ==
    IF rows = <<>> THEN <<>>
    ELSE LET first == CHOOSE i \in 1..Len(rows) :
                         /\ \A k \in 1..Len(rows) : rows[i].created_utc <= rows[k].created_utc
                         /\ \A k \in 1..(i - 1) : rows[k].created_utc # rows[i].created_utc
         IN  <<rows[first]>> \o
             OrderByCreated([k \in 1..(Len(rows) - 1) |->
                                IF k < first THEN rows[k] ELSE rows[k + 1]])

\* The join of result_history: for each selected run in turn, its rows of
\* bench_results, as (name, result).
RECURSIVE JoinResults(_, _)
JoinResults(selected, results) ==
    IF selected = <<>> THEN <<>>
    ELSE LET own == SelectSeq(results, LAMBDA r : r.bench_run_id = selected[1].id)
         IN  [i \in 1..Len(own) |-> [name |-> own[i].name, result |-> own[i].result]]
             \o JoinResults(Tail(selected), results)

\* A plausible bug: created_utc >= ? in place of created_utc > ?.
ResultHistoryInclusive(bruns, results, cutoff_date) ==
    JoinResults(OrderByCreated(SelectSeq(bruns, LAMBDA r : r.created_utc >= cutoff_date)),
                results)

\* Db::result_history: SELECT name, result FROM bench_results JOIN (SELECT id
\* FROM bench_runs WHERE created_utc > ? ORDER BY created_utc) ON id =
\* bench_run_id.
ResultHistory(bruns, results, cutoff_date) ==
    JoinResults(OrderByCreated(SelectSeq(bruns, LAMBDA r : r.created_utc > cutoff_date)),
                results)

\* A plausible bug: the two values bound in the wrong order.
StoreResultCommentIdSwapped(rows, pr_number, comment_id) ==
    Append(rows, [pr_number |-> comment_id, comment_id |-> pr_number])

\* Db::store_result_comment_id: INSERT INTO result_comments.
StoreResultCommentId(rows, pr_number, comment_id) ==
    Append(rows, [pr_number |-> pr_number, comment_id |-> comment_id])

\* A plausible bug: the lookup compares the wrong column.
ResultCommentIdByComment(rows, pr_number) ==
    {r.comment_id : r \in FirstOf(rows, LAMBDA x : x.comment_id = pr_number)}

\* Db::result_comment_id: SELECT comment_id .. WHERE pr_number = ?.
ResultCommentId(rows, pr_number) ==
    {r.comment_id : r \in FirstOf(rows, LAMBDA x : x.pr_number = pr_number)}

\* ------------------------------------ the store's data operations, alone

\* Db's operations on bench runs and on comparisons called directly, by one
\* caller. store_comparison_result is called as bench_pr calls it: for a
\* pair for which comparison_result has returned None.

DataCalled(op, arg, ret) ==
    call' = [n |-> call.n + 1, op |-> op, arg |-> arg, ret |-> ret]

CanCallData == call.n < MaxCalls /\ bp.pc = "idle" /\ runs = 0

Reorderings(seq) ==
    {[i \in 1..Len(seq) |-> seq[p[i]]] :
        p \in {f \in [1..Len(seq) -> 1..Len(seq)] :
                  \A i, j \in 1..Len(seq) : f[i] = f[j] => i = j}}

IcountResults ==
    {<<>>, <<<<"foo", 42>>>>, <<<<"foo", 41>>>>,
     <<<<"foo", 43>>, <<"bar", 7>>>>, <<<<"bar", 7>>, <<"foo", 43>>>>}

ScenarioDiffs ==
    [foo |-> [scenario_name |-> "foo", scenario_kind |-> "Icount",
              baseline_result |-> 42, candidate_result |-> 43,
              significance_threshold |-> 1, cachegrind_diff |-> "fake cachegrind diff"],
     bar |-> [scenario_name |-> "bar", scenario_kind |-> "Icount",
              baseline_result |-> 104, candidate_result |-> 100,
              significance_threshold |-> 5, cachegrind_diff |-> "fake cachegrind diff 2"]]

DiffLists ==
    {<<>>, <<ScenarioDiffs.foo>>, <<ScenarioDiffs.foo, ScenarioDiffs.bar>>,
     <<ScenarioDiffs.bar, ScenarioDiffs.foo>>}

MissingLists == {<<>>, <<"bar">>, <<"bar", "baz">>}

dataFrame == <<queueVars, handlerVars, result_comments, comments, commit_status, bp,
               trace, benched, succeeded, runs, bcrashes, bfaults>>

\* store_run_results(icount_results) -> Ok(bench_run_id); the call takes at
\* least one clock unit.
CallStoreRunResults(icount_results) ==
    /\ CanCallData
    /\ Len(bench_runs) < MaxBenchRuns
    /\ LET bench_run_id == Len(bench_runs) + 1
       IN  /\ bench_runs' = InsertBenchRun(bench_runs, bench_run_id, clock)
           /\ bench_results' = InsertBenchResults(bench_results, bench_run_id, icount_results)
           /\ DataCalled("store_run_results", icount_results, bench_run_id)
    /\ clock' = clock + 1
    /\ UNCHANGED <<nextEvent, nextJob, event_queue, jobs, journal, mutex, recv, inflight,
                   crashes, faults, enqLog, overlapped, bindLog, drained, jobEvent,
                   failed, interrupted>>
    /\ UNCHANGED <<benchVars, handlerVars, stored>>

\* result_history(cutoff_date) -> Ok(results)
CallResultHistory(cutoff_date) ==
    /\ CanCallData
    /\ cutoff_date <= clock
    /\ DataCalled("result_history", cutoff_date,
                  ResultHistory(bench_runs, bench_results, cutoff_date))
    /\ UNCHANGED <<queueVars, benchVars, handlerVars, bench_runs, bench_results, stored>>

HistoryNext ==
    \/ \E icount_results \in IcountResults : CallStoreRunResults(icount_results)
    \/ \E cutoff_date \in 0..MaxBenchRuns : CallResultHistory(cutoff_date)

SpecHistory == Init /\ [][HistoryNext]_vars

\* store_comparison_result(baseline, candidate, scenarios_missing, diffs) -> Ok(id)
CallStoreComparisonResult(baseline_commit, candidate_commit, scenarios_missing, diffs) ==
    /\ CanCallData
    /\ Len(comparison_runs) < MaxComparisons
    /\ ComparisonResult(comparison_runs, scenario_diffs,
                        baseline_commit, candidate_commit) = None
    /\ LET id == Len(comparison_runs) + 1
       IN  /\ comparison_runs' =
                  StoreComparisonResult(comparison_runs, id, baseline_commit,
                                        candidate_commit, scenarios_missing)
           /\ scenario_diffs' = InsertScenarioDiffs(scenario_diffs, id, diffs)
           /\ DataCalled("store_comparison_result",
                         <<baseline_commit, candidate_commit>>, id)
    /\ stored' = stored \cup {[baseline_commit |-> baseline_commit,
                               candidate_commit |-> candidate_commit,
                               scenarios_missing |-> scenarios_missing,
                               diffs |-> diffs]}
    /\ UNCHANGED <<bench_runs, bench_results>>
    /\ UNCHANGED dataFrame

\* comparison_result(baseline, candidate) -> Ok(Option<CompareResult>); the
\* SELECT on scenario_diffs has no ORDER BY, so the diffs come in any order.
CallComparisonResult(baseline_commit, candidate_commit) ==
    /\ CanCallData
    /\ LET found == ComparisonResult(comparison_runs, scenario_diffs,
                                     baseline_commit, candidate_commit)
       IN  \E ret \in IF found = None THEN {None}
                       ELSE {Some([r EXCEPT !.diffs = diffs]) :
                                r \in found,
                                diffs \in UNION {Reorderings(x.diffs) : x \in found}} :
              DataCalled("comparison_result", <<baseline_commit, candidate_commit>>, ret)
    /\ UNCHANGED <<queueVars, benchVars, handlerVars, bench_runs, bench_results, stored>>

ComparisonsNext ==
    \/ \E baseline_commit \in Commits, candidate_commit \in Commits,
          scenarios_missing \in MissingLists, diffs \in DiffLists :
          CallStoreComparisonResult(baseline_commit, candidate_commit,
                                    scenarios_missing, diffs)
    \/ \E baseline_commit \in Commits, candidate_commit \in Commits :
          CallComparisonResult(baseline_commit, candidate_commit)

SpecComparisons == Init /\ [][ComparisonsNext]_vars

\* ------------------------- significance and comparison (job/bench_pr.rs)
\* calculate_significance_thresholds and compare_results are pure functions.
\* An f64 is modelled exactly: a rational in lowest terms, an infinity or NaN.
\* Histories in which a NaN change and a numeric change of one scenario meet
\* are not drawn: sort_unstable_by leaves their order open.

RECURSIVE GCD(_, _)
GCD(a, b) == IF b = 0 THEN a ELSE GCD(b, a % b)

Abs(x) == IF x < 0 THEN 0 - x ELSE x

NaN == [k |-> "nan", n |-> 0, d |-> 1]
Inf == [k |-> "inf", n |-> 1, d |-> 1]
NegInf == [k |-> "-inf", n |-> 0 - 1, d |-> 1]

\* The f64 n / d, for d > 0.
F(n, d) ==
    LET g == GCD(Abs(n), d)
    IN  [k |-> "num", n |-> n \div g, d |-> d \div g]

Rank(x) == IF x.k = "-inf" THEN 0 ELSE IF x.k = "num" THEN 1 ELSE 2

\* f64::partial_cmp(x, y) = Some(Less); a NaN compares with nothing.
FLess(x, y) ==
    /\ x.k # "nan" /\ y.k # "nan"
    /\ IF x.k = "num" /\ y.k = "num" THEN x.n * y.d < y.n * x.d
       ELSE Rank(x) < Rank(y)

FNeg(x) ==
    IF x.k = "nan" THEN NaN
    ELSE IF x.k = "inf" THEN NegInf
    ELSE IF x.k = "-inf" THEN Inf
    ELSE F(0 - x.n, x.d)

FAdd(x, y) ==
    IF x.k = "nan" \/ y.k = "nan" THEN NaN
    ELSE IF x.k = "num" /\ y.k = "num" THEN F(x.n * y.d + y.n * x.d, x.d * y.d)
    ELSE IF x.k = "num" THEN y
    ELSE IF y.k = "num" THEN x
    ELSE IF x.k = y.k THEN x
    ELSE NaN

FSub(x, y) == FAdd(x, FNeg(y))

\* x * m for a float m > 0 with an integer value.
FScale(x, m) == IF x.k = "num" THEN F(x.n * m, x.d) ELSE x

\* f64::max: when one argument is NaN the other is returned.
FMax(x, y) ==
    IF x.k = "nan" THEN y
    ELSE IF y.k = "nan" THEN x
    ELSE IF FLess(x, y) THEN y ELSE x

\* static DEFAULT_NOISE_THRESHOLD: f64 = 0.002.
DEFAULT_NOISE_THRESHOLD == F(2, 1000)

\* results.len() < 10.
MinResults == 10

\* let iqr_multiplier = 3.0.
IqrMultiplier == 3

\* `result.result as u64`, for an f64 with an integer value: the cast
\* saturates, a negative value becomes 0.
AsU64(v) == IF v < 0 THEN 0 ELSE v

\* (window[0] as f64 - window[1] as f64).abs() / window[0] as f64.
Change(a, b) ==
    IF a = 0 THEN (IF b = 0 THEN NaN ELSE Inf) ELSE F(Abs(a - b), a)

\* results.windows(2).map(..).collect().
HistoricChanges(results) ==
    [i \in 1..(IF Len(results) = 0 THEN 0 ELSE Len(results) - 1) |->
        Change(results[i], results[i + 1])]

InsertSorted(sorted, x) ==
    LET after == {i \in 1..Len(sorted) : FLess(x, sorted[i])}
    IN  IF after = {} THEN Append(sorted, x)
        ELSE LET i == CHOOSE m \in after : \A o \in after : m <= o
             IN  SubSeq(sorted, 1, i - 1) \o <<x>> \o SubSeq(sorted, i, Len(sorted))

\* sort_unstable_by(|x, y| x.partial_cmp(y).unwrap_or(Ordering::Equal)).
RECURSIVE SortAscending(_)
SortAscending(seq) ==
    IF seq = <<>> THEN <<>>
    ELSE InsertSorted(SortAscending(SubSeq(seq, 1, Len(seq) - 1)), seq[Len(seq)])

\* A plausible bug: the floor left out.
SignificanceThresholdNoFloor(results) ==
    LET historic_changes == SortAscending(HistoricChanges(results))
        q1 == historic_changes[(Len(historic_changes) \div 4) + 1]
        q3 == historic_changes[((Len(historic_changes) * 3) \div 4) + 1]
        iqr == FSub(q3, q1)
    IN  FAdd(q3, FScale(iqr, IqrMultiplier))

\* calculate_significance_thresholds, the body of the loop for one scenario
\* with at least 10 results.
SignificanceThreshold(results) ==
    LET historic_changes == SortAscending(HistoricChanges(results))
        q1 == historic_changes[(Len(historic_changes) \div 4) + 1]
        q3 == historic_changes[((Len(historic_changes) * 3) \div 4) + 1]
        iqr == FSub(q3, q1)
    IN  FMax(FAdd(q3, FScale(iqr, IqrMultiplier)), DEFAULT_NOISE_THRESHOLD)

\* results_by_name[name]: the values of one scenario, in the order of the
\* history.
ResultsByName(historical_results, name) ==
    LET own == SelectSeq(historical_results, LAMBDA r : r.name = name)
    IN  [i \in 1..Len(own) |-> AsU64(own[i].result)]

NamesOf(historical_results) ==
    {historical_results[i].name : i \in 1..Len(historical_results)}

\* A plausible bug: a threshold for every scenario with at least two results.
CalculateSignificanceThresholdsFromTwo(historical_results) ==
    [name \in {n \in NamesOf(historical_results) :
                  Len(ResultsByName(historical_results, n)) >= 2} |->
        SignificanceThreshold(ResultsByName(historical_results, name))]

\* calculate_significance_thresholds: a HashMap from scenario name to f64.
CalculateSignificanceThresholds(historical_results) ==
    [name \in {n \in NamesOf(historical_results) :
                  ~(Len(ResultsByName(historical_results, n)) < MinResults)} |->
        SignificanceThreshold(ResultsByName(historical_results, name))]

\* significance_thresholds.get(scenario).cloned().unwrap_or(DEFAULT_NOISE_THRESHOLD)
ThresholdOrDefault(significance_thresholds, scenario) ==
    IF scenario \in DOMAIN significance_thresholds
    THEN significance_thresholds[scenario]
    ELSE DEFAULT_NOISE_THRESHOLD

\* compare_results, the loop: `order` is the order in which the candidate
\* HashMap is iterated, `failing` the scenarios whose cachegrind_diff fails.
RECURSIVE CompareLoop(_, _, _, _, _, _, _)
CompareLoop(order, baseline, candidate, significance_thresholds, failing, diffs, missing) ==
    IF order = <<>> THEN [ok |-> TRUE, diffs |-> diffs, missing |-> missing]
    ELSE LET scenario == Head(order)
         IN  IF scenario \notin DOMAIN baseline
             THEN CompareLoop(Tail(order), baseline, candidate, significance_thresholds,
                              failing, diffs, Append(missing, scenario))
             ELSE IF scenario \in failing
             THEN [ok |-> FALSE, diffs |-> <<>>, missing |-> <<>>]
             ELSE CompareLoop(Tail(order), baseline, candidate, significance_thresholds,
                              failing,
                              Append(diffs,
                                     [scenario_name |-> scenario,
                                      scenario_kind |-> "Icount",
                                      baseline_result |-> baseline[scenario],
                                      candidate_result |-> candidate[scenario],
                                      significance_threshold |->
                                          ThresholdOrDefault(significance_thresholds,
                                                             scenario),
                                      cachegrind_diff |-> "diff"]),
                              missing)

\* A plausible bug: a scenario whose cachegrind_diff fails is left out and the
\* comparison goes on.
CompareResultsSkipFailing(order, baseline, candidate, significance_thresholds, failing) ==
    CompareLoop(SelectSeq(order, LAMBDA n : n \notin failing), baseline, candidate,
                significance_thresholds, {}, <<>>, <<>>)

\* A plausible bug: the loop runs over the baseline's scenarios.
CompareResultsOverBaseline(order, baseline, candidate, significance_thresholds, failing) ==
    CompareLoop(SelectSeq(order, LAMBDA n : n \in DOMAIN baseline), baseline, candidate,
                significance_thresholds, failing, <<>>, <<>>)

\* compare_results.
CompareResults(order, baseline, candidate, significance_thresholds, failing) ==
    CompareLoop(order, baseline, candidate, significance_thresholds, failing, <<>>, <<>>)

\* ------------------------------------------------- bench_pr (job/bench_pr.rs)

\* A plausible alternative: a red status when the comparison failed.
FinalStatusByResult(result) == IF result = "Err" THEN "Failure" ELSE "Success"

\* bench_pr, the status set after the comment step.
FinalStatus(result) == "Success"

Did(effect) == \E i \in 1..Len(trace) : trace[i] = effect

\* The instruction count the runner measures on a commit.
Measure(sha) == IF sha = "a" THEN 41 ELSE 42

\* compare_refs, when both runs and the comparison succeed: one scenario,
\* none missing in the baseline.
CompareRefs(base_sha, cand_sha) ==
    [diffs |-> <<[scenario_name |-> "foo",
                  scenario_kind |-> "Icount",
                  baseline_result |-> Measure(base_sha),
                  candidate_result |-> Measure(cand_sha),
                  significance_threshold |-> 1,
                  cachegrind_diff |-> "diff"]>>,
     scenarios_missing_in_baseline |-> <<>>]

\* A plausible bug: the log digest is written only when the comparison failed.
WriteLogsOnError(t, cmp) == IF cmp = "Err" THEN Append(t, "logs.md") ELSE t

\* bench_pr_and_cache_results: fs::write(job_output_dir/logs.md), whatever
\* compare_refs returned.
WriteLogs(t, cmp) == Append(t, "logs.md")

\* history: update_comment or create_comment failed in a run that had
\* computed a fresh comparison with success.
PostFailed ==
    IF bp.result = "Ok" /\ bp.cached = None
    THEN bp.postFailed \cup {<<bp.base_sha, bp.cand_sha>>}
    ELSE bp.postFailed

\* A plausible bug: the error is logged and Ok(()) returned.
ReturnOk(ret) == bp' = [bp EXCEPT !.pc = "idle", !.ret = "Ok"]

\* bench_pr returns `ret` to its caller.
Return(ret) == bp' = [bp EXCEPT !.pc = "idle", !.ret = ret]

\* An injected error of a store, platform or file-system call.
Fault == bfaults < MaxFaults /\ bfaults' = bfaults + 1

NoFault == bfaults' = bfaults

\* A plausible bug: the check of the base branch left out.
RefusedNever(base_branch) == FALSE

\* bench_pr: branches.baseline.branch_name != "main".
Refused(base_branch) == base_branch # "main"

\* bench_pr is entered with (pr_number, branches); a base other than main is
\* refused.
Enter(pr, base_branch, base_sha, cand_sha) ==
    /\ runs' = runs + 1
    /\ trace' = <<>>
    /\ IF Refused(base_branch)
       THEN /\ bp' = [IdleBp EXCEPT !.pr = pr, !.base_branch = base_branch,
                                    !.base_sha = base_sha, !.cand_sha = cand_sha,
                                    !.ret = "Ok", !.postFailed = bp.postFailed]
       ELSE /\ bp' = [IdleBp EXCEPT
                        !.pc = "pending", !.pr = pr, !.base_branch = base_branch,
                        !.base_sha = base_sha, !.cand_sha = cand_sha,
                        !.hadRun = (<<base_sha, cand_sha>> \in benched),
                        !.hadStored =
                            (\E i \in 1..Len(comparison_runs) :
                                /\ comparison_runs[i].baseline_commit = base_sha
                                /\ comparison_runs[i].candidate_commit = cand_sha),
                        !.hadSuccess = (pr \in succeeded),
                        !.postFailed = bp.postFailed]

\* A handler calls bench_pr for a new event.
BenchStart ==
    /\ bp.pc = "idle"
    /\ runs < MaxRuns
    /\ \E pr \in PrNumbers, base_branch \in Branches, base_sha \in Commits,
          cand_sha \in Commits :
          /\ base_sha # cand_sha
          /\ Enter(pr, base_branch, base_sha, cand_sha)
    /\ UNCHANGED notBench
    /\ UNCHANGED <<comparison_runs, scenario_diffs, result_comments, comments, commit_status,
                   benched, succeeded, bcrashes, bfaults>>

\* After a crash the event is still queued and its handler runs again.
BenchReplay ==
    /\ bp.pc = "crashed"
    /\ Enter(bp.pr, bp.base_branch, bp.base_sha, bp.cand_sha)
    /\ UNCHANGED notBench
    /\ UNCHANGED <<comparison_runs, scenario_diffs, result_comments, comments, commit_status,
                   benched, succeeded, bcrashes, bfaults>>

\* update_commit_status(candidate, Pending).
BenchPending ==
    /\ bp.pc = "pending"
    /\ commit_status' = [commit_status EXCEPT ![bp.cand_sha] = "Pending"]
    /\ trace' = Append(trace, "Pending")
    /\ bp' = [bp EXCEPT !.pc = "lookup"]
    /\ UNCHANGED notBench
    /\ UNCHANGED <<comparison_runs, scenario_diffs, result_comments, comments, benched,
                   succeeded, runs, bcrashes, bfaults>>

\* ctx.db.comparison_result(baseline, candidate).await? and the match on it.
BenchLookup ==
    /\ bp.pc = "lookup"
    /\ \/ /\ NoFault
          /\ trace' = Append(trace, "comparison_result")
          /\ LET cached_result ==
                     ComparisonResult(comparison_runs, scenario_diffs,
                                      bp.base_sha, bp.cand_sha)
             IN  IF cached_result # None
                 THEN bp' = [bp EXCEPT !.pc = "comment_lookup", !.result = "Ok",
                                       !.cached = cached_result]
                 ELSE bp' = [bp EXCEPT !.pc = "history"]
       \/ /\ Fault
          /\ Return("Err")
          /\ UNCHANGED trace
    /\ UNCHANGED notBench
    /\ UNCHANGED <<comparison_runs, scenario_diffs, result_comments, comments, commit_status,
                   benched, succeeded, runs, bcrashes>>

\* bench_pr_and_cache_results: result_history(cutoff) and the thresholds.
BenchHistory ==
    /\ bp.pc = "history"
    /\ \/ NoFault /\ bp' = [bp EXCEPT !.pc = "run_candidate"]
       \/ Fault /\ bp' = [bp EXCEPT !.pc = "comment_lookup", !.result = "Err"]
    /\ UNCHANGED notBench
    /\ UNCHANGED <<comparison_runs, scenario_diffs, result_comments, comments, commit_status,
                   trace, benched, succeeded, runs, bcrashes>>

\* A plausible bug: the result of the candidate run is not checked.
AfterCandidateAlwaysBase(ok) == "run_base"

\* compare_refs: the `?` on the candidate run: the baseline is measured only
\* when the candidate run returned Ok.
AfterCandidate(ok) == IF ok THEN "run_base" ELSE "write_logs"

\* compare_refs: checkout_and_run_benchmarks on the candidate.
BenchRunCandidate ==
    /\ bp.pc = "run_candidate"
    /\ trace' = Append(trace, "run_candidate")
    /\ benched' = benched \cup {<<bp.base_sha, bp.cand_sha>>}
    /\ \E ok \in BOOLEAN :
          bp' = [bp EXCEPT !.pc = AfterCandidate(ok),
                           !.cmp = IF ok THEN @ ELSE "Err",
                           !.why = IF ok THEN @ ELSE "run_candidate"]
    /\ UNCHANGED notBench
    /\ UNCHANGED <<comparison_runs, scenario_diffs, result_comments, comments, commit_status,
                   succeeded, runs, bcrashes, bfaults>>

\* compare_refs: checkout_and_run_benchmarks on the baseline.
BenchRunBase ==
    /\ bp.pc = "run_base"
    /\ trace' = Append(trace, "run_base")
    /\ \/ bp' = [bp EXCEPT !.pc = "compare"]
       \/ bp' = [bp EXCEPT !.pc = "write_logs", !.cmp = "Err", !.why = "run_base"]
    /\ UNCHANGED notBench
    /\ UNCHANGED <<comparison_runs, scenario_diffs, result_comments, comments, commit_status,
                   benched, succeeded, runs, bcrashes, bfaults>>

\* compare_refs: read_results on both sides and compare_results.
BenchCompare ==
    /\ bp.pc = "compare"
    /\ \/ bp' = [bp EXCEPT !.pc = "write_logs", !.cmp = "Err", !.why = "read_results"]
       \/ \E failing \in SUBSET {"foo"} :
             LET compared ==
                     CompareResults(<<"foo">>, [n \in {"foo"} |-> Measure(bp.base_sha)],
                                    [n \in {"foo"} |-> Measure(bp.cand_sha)], <<>>, failing)
             IN  bp' = [bp EXCEPT !.pc = "write_logs",
                                  !.cmp = IF compared.ok THEN "Ok" ELSE "Err",
                                  !.why = IF failing = {} THEN "none"
                                          ELSE "cachegrind_diff"]
    /\ UNCHANGED notBench
    /\ UNCHANGED <<comparison_runs, scenario_diffs, result_comments, comments, commit_status,
                   trace, benched, succeeded, runs, bcrashes, bfaults>>

\* bench_pr_and_cache_results: the blocking task panics, and
\* .await.context("benchmarking task crashed")? returns before logs.md.
BenchTaskPanic ==
    /\ bp.pc \in {"run_candidate", "run_base", "compare"}
    /\ Fault
    /\ trace' = Append(trace, "task crashed")
    /\ bp' = [bp EXCEPT !.pc = "comment_lookup", !.result = "Err"]
    /\ UNCHANGED notBench
    /\ UNCHANGED <<comparison_runs, scenario_diffs, result_comments, comments, commit_status,
                   benched, succeeded, runs, bcrashes>>

\* bench_pr_and_cache_results: fs::write(logs.md)?.
BenchWriteLogs ==
    /\ bp.pc = "write_logs"
    /\ \/ /\ NoFault
          /\ trace' = WriteLogs(trace, bp.cmp)
          /\ IF bp.cmp = "Ok"
             THEN bp' = [bp EXCEPT !.pc = "store_comparison"]
             ELSE bp' = [bp EXCEPT !.pc = "comment_lookup", !.result = "Err"]
       \/ /\ Fault
          /\ bp' = [bp EXCEPT !.pc = "comment_lookup", !.result = "Err"]
          /\ trace' = Append(trace, "logs.md failed")
    /\ UNCHANGED notBench
    /\ UNCHANGED <<comparison_runs, scenario_diffs, result_comments, comments, commit_status,
                   benched, succeeded, runs, bcrashes>>

\* bench_pr_and_cache_results: store_comparison_result(..)? when Ok.
BenchStoreComparison ==
    /\ bp.pc = "store_comparison"
    /\ \/ /\ NoFault
          /\ LET id == Len(comparison_runs) + 1
                 result == CompareRefs(bp.base_sha, bp.cand_sha)
             IN  /\ comparison_runs' =
                        StoreComparisonResult(comparison_runs, id, bp.base_sha,
                                              bp.cand_sha,
                                              result.scenarios_missing_in_baseline)
                 /\ scenario_diffs' = InsertScenarioDiffs(scenario_diffs, id, result.diffs)
          /\ trace' = Append(trace, "store_comparison_result")
          /\ bp' = [bp EXCEPT !.pc = "comment_lookup", !.result = "Ok"]
       \/ /\ Fault
          /\ bp' = [bp EXCEPT !.pc = "comment_lookup", !.result = "Err"]
          /\ UNCHANGED <<comparison_runs, scenario_diffs, trace>>
    /\ UNCHANGED notBench
    /\ UNCHANGED <<result_comments, comments, commit_status, benched,
                   succeeded, runs, bcrashes>>

\* ctx.db.result_comment_id(pr_number).await? and the if-let on it.
BenchCommentLookup ==
    /\ bp.pc = "comment_lookup"
    /\ \/ /\ NoFault
          /\ LET found == ResultCommentId(result_comments, bp.pr)
             IN  bp' = [bp EXCEPT
                         !.pc = IF found # None THEN "update_comment"
                                ELSE "create_comment",
                         !.cid = found]
       \/ Fault /\ Return("Err")
    /\ UNCHANGED notBench
    /\ UNCHANGED <<comparison_runs, scenario_diffs, result_comments, comments, commit_status,
                   trace, benched, succeeded, runs, bcrashes>>

\* issues.update_comment(comment_id, comment).await?.
BenchUpdateComment ==
    /\ bp.pc = "update_comment"
    /\ \/ /\ NoFault
          /\ trace' = Append(trace, "update_comment")
          /\ bp' = [bp EXCEPT !.pc = "success"]
       \/ /\ Fault
          /\ bp' = [bp EXCEPT !.pc = "idle", !.ret = "Err", !.postFailed = PostFailed]
          /\ UNCHANGED trace
    /\ UNCHANGED notBench
    /\ UNCHANGED <<comparison_runs, scenario_diffs, result_comments, comments, commit_status,
                   benched, succeeded, runs, bcrashes>>

\* issues.create_comment(pr_number, comment).await?.
BenchCreateComment ==
    /\ bp.pc = "create_comment"
    /\ \/ /\ NoFault
          /\ comments' = Append(comments, bp.pr)
          /\ trace' = Append(trace, "create_comment")
          /\ bp' = [bp EXCEPT !.pc = "store_comment_id", !.cid = Some(Len(comments) + 1)]
       \/ /\ Fault
          /\ bp' = [bp EXCEPT !.pc = "idle", !.ret = "Err", !.postFailed = PostFailed]
          /\ UNCHANGED <<comments, trace>>
    /\ UNCHANGED notBench
    /\ UNCHANGED <<comparison_runs, scenario_diffs, result_comments, commit_status, benched,
                   succeeded, runs, bcrashes>>

\* ctx.db.store_result_comment_id(pr_number, comment.id).await?.
BenchStoreCommentId ==
    /\ bp.pc = "store_comment_id"
    /\ \/ /\ NoFault
          /\ \E id \in bp.cid :
                result_comments' = StoreResultCommentId(result_comments, bp.pr, id)
          /\ trace' = Append(trace, "store_result_comment_id")
          /\ bp' = [bp EXCEPT !.pc = "success"]
       \/ Fault /\ Return("Err") /\ UNCHANGED <<result_comments, trace>>
    /\ UNCHANGED notBench
    /\ UNCHANGED <<comparison_runs, scenario_diffs, comments, commit_status, benched,
                   succeeded, runs, bcrashes>>

\* update_commit_status(candidate, Success) and Ok(()).
BenchSuccess ==
    /\ bp.pc = "success"
    /\ commit_status' = [commit_status EXCEPT ![bp.cand_sha] = FinalStatus(bp.result)]
    /\ trace' = Append(trace, FinalStatus(bp.result))
    /\ succeeded' = succeeded \cup {bp.pr}
    /\ Return("Ok")
    /\ UNCHANGED notBench
    /\ UNCHANGED <<comparison_runs, scenario_diffs, result_comments, comments, benched, runs,
                   bcrashes, bfaults>>

\* The process dies while bench_pr is running; the tables and what was sent
\* to the platform stay.
BenchCrash ==
    /\ bp.pc \notin {"idle", "crashed"}
    /\ bcrashes < MaxCrashes
    /\ bcrashes' = bcrashes + 1
    /\ bp' = [bp EXCEPT !.pc = "crashed"]
    /\ UNCHANGED notBench
    /\ UNCHANGED <<comparison_runs, scenario_diffs, result_comments, comments, commit_status,
                   trace, benched, succeeded, runs, bfaults>>

BenchNext ==
    \/ BenchStart
    \/ BenchReplay
    \/ BenchPending
    \/ BenchLookup
    \/ BenchHistory
    \/ BenchRunCandidate
    \/ BenchRunBase
    \/ BenchCompare
    \/ BenchTaskPanic
    \/ BenchWriteLogs
    \/ BenchStoreComparison
    \/ BenchCommentLookup
    \/ BenchUpdateComment
    \/ BenchCreateComment
    \/ BenchStoreCommentId
    \/ BenchSuccess
    \/ BenchCrash

SpecBench == Init /\ [][BenchNext]_vars

\* ----------------- significance and comparison, called on their own

\* ---- inputs

MaxHistory == 11

Scenarios == {"foo", "bar", "baz"}

ConstantHistory(c, n) == [i \in 1..n |-> c]

\* the history of the test calculate_outlier_bounds_many_results
ManyResults == <<100, 97, 98, 101, 100, 99, 97, 102, 99, 98>>

ValueSeqs ==
    {ConstantHistory(c, n) : c \in {0 - 1, 0, 7, 1000}, n \in 0..MaxHistory}
        \cup {ManyResults, SubSeq(ManyResults, 1, 9), <<1000>> \o ManyResults}

OtherValueSeqs == {<<>>, ConstantHistory(1000, 10), SubSeq(ManyResults, 1, 9)}

Named(name, values) == [i \in 1..Len(values) |-> [name |-> name, result |-> values[i]]]

RECURSIVE Interleave(_, _)
Interleave(s, t) == IF s = <<>> THEN t ELSE <<Head(s)>> \o Interleave(t, Tail(s))

\* Histories as result_history returns them: the results of "foo" and "bar"
\* alternate, as runs that measured both scenarios leave them.
Histories ==
    {Interleave(Named("foo", v), Named("bar", w)) : v \in ValueSeqs, w \in OtherValueSeqs}

BaselineIcount(scenario) ==
    IF scenario = "foo" THEN 100 ELSE IF scenario = "bar" THEN 200 ELSE 300

CandidateIcount(scenario) ==
    IF scenario = "foo" THEN 101 ELSE IF scenario = "bar" THEN 202 ELSE 303

\* the contents of base/results/icounts.csv and candidate/results/icounts.csv
BaselineMaps == {[n \in dom |-> BaselineIcount(n)] : dom \in SUBSET Scenarios}

CandidateMaps == {[n \in dom |-> CandidateIcount(n)] : dom \in SUBSET Scenarios}

RECURSIVE SeqOfSet(_)
SeqOfSet(set) ==
    IF set = {} THEN <<>>
    ELSE LET x == CHOOSE y \in set : TRUE IN <<x>> \o SeqOfSet(set \ {x})

analysisFrame == <<queueVars, benchVars, handlerVars, bench_runs, bench_results, stored>>

\* bench_pr_and_cache_results: calculate_significance_thresholds(historical_results)
CallCalculateSignificanceThresholds(historical_results) ==
    /\ call.op = "none"
    /\ call' = [n |-> 1, op |-> "calculate_significance_thresholds",
                arg |-> historical_results,
                ret |-> CalculateSignificanceThresholds(historical_results)]
    /\ UNCHANGED analysisFrame

\* compare_refs: compare_results(.., &baseline, &candidate, significance_thresholds),
\* with the thresholds computed just before.
CallCompareResults(baseline, candidate, failing) ==
    /\ call.op = "calculate_significance_thresholds"
    /\ \E order \in Reorderings(SeqOfSet(DOMAIN candidate)) :
          call' = [n |-> 2, op |-> "compare_results",
                   arg |-> [historical_results |-> call.arg,
                            significance_thresholds |-> call.ret,
                            baseline |-> baseline, candidate |-> candidate,
                            failing |-> failing],
                   ret |-> CompareResults(order, baseline, candidate, call.ret, failing)]
    /\ UNCHANGED analysisFrame

\* The next run starts from the history again.
AnalysisDone ==
    /\ call.op = "compare_results"
    /\ call' = [n |-> 0, op |-> "none"]
    /\ UNCHANGED analysisFrame

AnalysisNext ==
    \/ \E h \in Histories : CallCalculateSignificanceThresholds(h)
    \/ \E baseline \in BaselineMaps, candidate \in CandidateMaps,
          failing \in {{}, {"foo"}} : CallCompareResults(baseline, candidate, failing)
    \/ AnalysisDone

SpecAnalysis == Init /\ [][AnalysisNext]_vars

\* ------------------------------------------- handlers (job/bench_pr.rs)

\* A plausible bug: one association too many.
AllowedWithContributor == {"OWNER", "MEMBER", "COLLABORATOR", "CONTRIBUTOR"}

ALLOWED_AUTHOR_ASSOCIATIONS == {"OWNER", "MEMBER", "COLLABORATOR"}

Associations == {"OWNER", "MEMBER", "COLLABORATOR", "CONTRIBUTOR", "NONE"}
Logins == {"rustls-bench", "alice"}
CloneUrls == {"upstream", "fork"}

\* A comment body, as its words.
Bodies ==
    {<<"@rustls-bench", "bench">>, <<"please", "@rustls-bench", "bench", "now">>,
     <<"@rustls-bench", "help">>, <<"bench", "@rustls-bench">>, <<"hello">>}

\* str::contains.
Contains(body, pat) ==
    \E i \in 1..(Len(body) - Len(pat) + 1) : SubSeq(body, i, i + Len(pat) - 1) = pat

\* A pull request as the platform or the payload describes it: repo is the
\* Option of the side's clone_url.
PullRequests ==
    [number : {1},
     head : [ref : {"feature"}, sha : Commits, repo : {None} \cup {Some(u) : u \in CloneUrls}],
     base : [ref : Branches, sha : {"a"}, repo : {None, Some("upstream")}]]

\* pr_branches: None when either side has no repository or no clone_url.
PrBranches(pr) ==
    IF pr.head.repo = None \/ pr.base.repo = None THEN None
    ELSE Some([candidate |-> [branch_name |-> pr.head.ref, commit_sha |-> pr.head.sha,
                              clone_url |-> CHOOSE u \in pr.head.repo : TRUE],
               baseline |-> [branch_name |-> pr.base.ref, commit_sha |-> pr.base.sha,
                             clone_url |-> CHOOSE u \in pr.base.repo : TRUE]])

\* bench_pr and compare_refs: the commits a run with these branches uses for
\* its two commit-status updates, its cache lookup, the comparison it stores
\* and the two descriptors it hands to the runner.
BenchPrCommits(branches) ==
    [pending |-> branches.candidate.commit_sha,
     cache_key |-> <<branches.baseline.commit_sha, branches.candidate.commit_sha>>,
     store_key |-> <<branches.baseline.commit_sha, branches.candidate.commit_sha>>,
     run_candidate |-> branches.candidate.commit_sha,
     run_base |-> branches.baseline.commit_sha,
     success |-> branches.candidate.commit_sha]

\* What a handler did: the bench_pr call it ended with (Option of
\* [pr_number, branches]), the platform calls it made itself, and what it
\* returned ("bench_pr": whatever bench_pr returns).
Outcome(bench, get_pr, help, ret) ==
    [bench |-> bench, get_pr |-> get_pr, help |-> help, ret |-> ret]

\* A plausible bug: the event that is not handled is reported as an error.
IgnoredAsError == Outcome(None, FALSE, FALSE, "Err")

\* return Ok(()) before any call to the platform or to bench_pr.
Ignored == Outcome(None, FALSE, FALSE, "Ok")

BenchPr(pr_number, branches) ==
    Outcome(Some([pr_number |-> pr_number, branches |-> branches]), FALSE, FALSE, "bench_pr")

\* A plausible bug: the check for the bot's own login left out.
HandleIssueCommentNoSelfCheck(p, platform) ==
    IF ~p.parses THEN Ignored
    ELSE IF ~p.is_pr THEN Ignored
    ELSE IF p.action # "created" THEN Ignored
    ELSE IF p.author_association \notin ALLOWED_AUTHOR_ASSOCIATIONS THEN Ignored
    ELSE IF Contains(p.body, <<"@rustls-bench", "bench">>)
    THEN IF ~platform.ok THEN Outcome(None, TRUE, FALSE, "Err")
         ELSE IF PrBranches(platform.pr) = None THEN Outcome(None, TRUE, FALSE, "Err")
         ELSE [BenchPr(platform.pr.number, CHOOSE b \in PrBranches(platform.pr) : TRUE)
                  EXCEPT !.get_pr = TRUE]
    ELSE IF Contains(p.body, <<"@rustls-bench">>)
    THEN Outcome(None, FALSE, TRUE, IF platform.ok THEN "Ok" ELSE "Err")
    ELSE Ignored

\* handle_issue_comment. `platform` is what the platform answers: whether its
\* calls succeed and the pull request pulls().get() returns.
HandleIssueComment(p, platform) ==
    IF ~p.parses THEN Ignored
    ELSE IF ~p.is_pr THEN Ignored
    ELSE IF p.action # "created" THEN Ignored
    ELSE IF p.login = "rustls-bench" THEN Ignored
    ELSE IF p.author_association \notin ALLOWED_AUTHOR_ASSOCIATIONS THEN Ignored
    ELSE IF Contains(p.body, <<"@rustls-bench", "bench">>)
    THEN IF ~platform.ok THEN Outcome(None, TRUE, FALSE, "Err")
         ELSE IF PrBranches(platform.pr) = None THEN Outcome(None, TRUE, FALSE, "Err")
         ELSE [BenchPr(platform.pr.number, CHOOSE b \in PrBranches(platform.pr) : TRUE)
                  EXCEPT !.get_pr = TRUE]
    ELSE IF Contains(p.body, <<"@rustls-bench">>)
    THEN Outcome(None, FALSE, TRUE, IF platform.ok THEN "Ok" ELSE "Err")
    ELSE Ignored

\* A plausible bug: the candidate commit is left at the PR head.
HandlePrReviewHeadSha(p) ==
    IF ~p.parses THEN Ignored
    ELSE IF p.action # "submitted" THEN Ignored
    ELSE IF p.author_association \notin ALLOWED_AUTHOR_ASSOCIATIONS THEN Ignored
    ELSE IF p.state # "approved" THEN Ignored
    ELSE IF PrBranches(p.pull_request) = None THEN Ignored
    ELSE BenchPr(p.pull_request.number, CHOOSE b \in PrBranches(p.pull_request) : TRUE)

\* handle_pr_review.
HandlePrReview(p) ==
    IF ~p.parses THEN Ignored
    ELSE IF p.action # "submitted" THEN Ignored
    ELSE IF p.author_association \notin ALLOWED_AUTHOR_ASSOCIATIONS THEN Ignored
    ELSE IF p.state # "approved" THEN Ignored
    ELSE IF PrBranches(p.pull_request) = None THEN Ignored
    ELSE LET branches == CHOOSE b \in PrBranches(p.pull_request) : TRUE
         IN  BenchPr(p.pull_request.number,
                     [branches EXCEPT !.candidate.commit_sha = p.commit_id])

\* A plausible bug: the check for forks left out.
HandlePrUpdateNoForkCheck(p) ==
    IF ~p.parses THEN Ignored
    ELSE IF p.action \notin {"opened", "synchronize"} THEN Ignored
    ELSE IF PrBranches(p.pull_request) = None THEN Ignored
    ELSE BenchPr(p.pull_request.number, CHOOSE b \in PrBranches(p.pull_request) : TRUE)

\* handle_pr_update.
HandlePrUpdate(p) ==
    IF ~p.parses THEN Ignored
    ELSE IF p.action \notin {"opened", "synchronize"} THEN Ignored
    ELSE IF PrBranches(p.pull_request) = None THEN Ignored
    ELSE LET branches == CHOOSE b \in PrBranches(p.pull_request) : TRUE
         IN  IF branches.baseline.clone_url # branches.candidate.clone_url THEN Ignored
             ELSE BenchPr(p.pull_request.number, branches)

CommentPayloads ==
    [parses : BOOLEAN, is_pr : BOOLEAN, action : {"created", "edited"},
     login : Logins, author_association : Associations, body : Bodies]

ReviewPayloads ==
    [parses : BOOLEAN, action : {"submitted", "dismissed"},
     author_association : Associations,
     state : {"approved", "commented", "changes_requested"},
     commit_id : Commits, pull_request : PullRequests]

PrPayloads ==
    [parses : BOOLEAN, action : {"opened", "synchronize", "closed"},
     author_association : Associations, pull_request : PullRequests]

\* The dispatcher hands an issue_comment event to its handler.
OnIssueComment ==
    /\ hv.kind = "none"
    /\ \E p \in CommentPayloads, platform \in [ok : BOOLEAN, pr : PullRequests] :
          hv' = [kind |-> "issue_comment", payload |-> p, platform |-> platform,
                 out |-> HandleIssueComment(p, platform)]
    /\ UNCHANGED notHandlers

\* The dispatcher hands a pull_request_review event to its handler.
OnPrReview ==
    /\ hv.kind = "none"
    /\ \E p \in ReviewPayloads :
          hv' = [kind |-> "pull_request_review", payload |-> p,
                 out |-> HandlePrReview(p)]
    /\ UNCHANGED notHandlers

\* The dispatcher hands a pull_request event to its handler.
OnPrUpdate ==
    /\ hv.kind = "none"
    /\ \E p \in PrPayloads :
          hv' = [kind |-> "pull_request", payload |-> p, out |-> HandlePrUpdate(p)]
    /\ UNCHANGED notHandlers

\* The handler has returned; the dispatcher goes on to the next event.
HandlerDone ==
    /\ hv.kind # "none"
    /\ hv' = [kind |-> "none"]
    /\ UNCHANGED notHandlers

HandlerNext == OnIssueComment \/ OnPrReview \/ OnPrUpdate \/ HandlerDone

SpecHandlers == Init /\ [][HandlerNext]_vars

\* ------------------------------------------------------ claims on the queue

IsPrefix(s, t) == Len(s) <= Len(t) /\ \A i \in 1..Len(s) : s[i] = t[i]

\* C1: when every enqueue_event call returned before the next one started,
\* the events leave the queue (next_queued_event, then delete_event of the
\* event returned) in the order in which they were enqueued.
C1_QueueOrdering == ~overlapped => IsPrefix(drained, enqLog)

C1_Witness == ~overlapped /\ Len(drained) >= 2

\* C2 (for runs without a crash or a store error, where it already fails):
\* events are bound to jobs in ascending created_utc order: no event is bound
\* before an event with a smaller created_utc, also when enqueue_event calls
\* overlap with each other and with the dispatcher.
C2_DispatchAscending ==
    (crashes = 0 /\ faults = 0) =>
        \A i, j \in 1..Len(bindLog) :
            i < j => ~(bindLog[j].created_utc < bindLog[i].created_utc)

\* The job rows created for an event, by id.
JobsOf(event_id) ==
    {row.id : row \in {r \in jobs :
        \E k \in 1..Len(jobEvent) :
            jobEvent[k].job = r.id /\ jobEvent[k].event = event_id}}

Newest(ids) == CHOOSE x \in ids : \A y \in ids : y <= x

\* C3: in every state another caller of the store can observe (the mutex is
\* free), a job_id on an event names an existing job row, and an event for
\* which new_job_for_event left a job row carries the binding to the newest
\* such row; a failed call leaves neither the row nor the binding.
C3_NewJobAtomic ==
    mutex = None =>
        \A i \in 1..Len(event_queue) :
            /\ \A j \in event_queue[i].job_id : \E row \in jobs : row.id = j
            /\ JobsOf(event_queue[i].id) # {} =>
                  event_queue[i].job_id = Some(Newest(JobsOf(event_queue[i].id)))

C3_Witness ==
    /\ mutex = None
    /\ faults > 0
    /\ \E i \in 1..Len(event_queue) : event_queue[i].job_id # None

\* C10: at most one handler invocation is in progress, and (in a run without
\* a crash) when the dispatcher is about to bind a job, every earlier job is
\* stamped finished and no queued event carries a job.
C10_SingleFlight ==
    /\ Cardinality(inflight) <= 1
    /\ crashes = 0 =>
          \A d \in inflight : d.pc = "bind" =>
              /\ \A row \in jobs : row.finished_utc # None
              /\ \A i \in 1..Len(event_queue) : event_queue[i].job_id = None

C10_Witness ==
    /\ Len(drained) >= 1
    /\ Len(event_queue) >= 1
    /\ \E d \in inflight : d.pc = "handle"

\* ------------------------------------------ claims on progress and recovery

InQueue(e) == \E i \in 1..Len(event_queue) : event_queue[i].id = e

JobsFor(e) ==
    {j \in jobs : \E m \in 1..Len(jobEvent) : jobEvent[m] = [job |-> j.id, event |-> e]}

Drained(e) ==
    /\ ~InQueue(e)
    /\ \E k \in 1..Len(drained) : drained[k] = e
    /\ \E j \in JobsFor(e) : j.finished_utc # None

Bindings(e) == Cardinality({k \in 1..Len(bindLog) : bindLog[k].id = e})

\* C11: while the process does not crash, every event in the queue is
\* eventually bound, handled, its job stamped finished and the event deleted,
\* whether its handler, or the handler of an event before it, returned Ok or
\* Err.
C11_QueueProgress ==
    \A e \in 1..MaxEvents :
        (crashes = 0 /\ InQueue(e)) ~> (crashes > 0 \/ Drained(e))

C11_Witness ==
    /\ crashes = 0
    /\ Len(drained) = 2
    /\ drained[1] \in failed
    /\ Drained(drained[1]) /\ Drained(drained[2])

\* A crash while the dispatcher is between new_job_for_event and
\* delete_event; `stages` are the positions the statement is about.
CrashLeaves(stages, finished) ==
    crashes' = crashes + 1 =>
        \A d \in {x \in inflight : x.pc \in stages} :
            /\ \E i \in 1..Len(event_queue') :
                  /\ event_queue'[i].id = d.event_id
                  /\ event_queue'[i].job_id = Some(d.job_id)
            /\ \E j \in jobs' : j.id = d.job_id
            /\ \A j \in jobs' : j.id = d.job_id => ((j.finished_utc # None) = finished)

Replayed ==
    \A e \in 1..MaxEvents : (e \in interrupted) ~> (Bindings(e) >= 2 /\ Drained(e))

Position(e) == CHOOSE i \in 1..Len(event_queue) : event_queue[i].id = e

Tied(i, j) ==
    i # j /\ event_queue[i].created_utc = event_queue[j].created_utc

\* C23 as stated: the event next_queued_event returned is, among the queued
\* events with its created_utc, the one inserted first.
C23_TiesByInsertion ==
    \A d \in inflight :
        InQueue(d.event_id) =>
            \A i \in 1..Len(event_queue) :
                Tied(i, Position(d.event_id)) => Position(d.event_id) < i

\* C23, amended: the event next_queued_event returns is queued and no queued
\* event has a smaller created_utc; among events with equal created_utc the
\* query does not determine which one is returned.
C23_OldestReturned ==
    [][\A d \in inflight' :
          (d \notin inflight /\ d.pc = "bind") =>
              \E i \in 1..Len(event_queue) :
                  /\ event_queue[i].id = d.event_id
                  /\ event_queue[i].created_utc = d.event_created_utc
                  /\ \A k \in 1..Len(event_queue) :
                        event_queue[i].created_utc <= event_queue[k].created_utc]_vars

C23_Witness ==
    \E d \in inflight :
        /\ d.pc = "bind"
        /\ InQueue(d.event_id)
        /\ \E i \in 1..Len(event_queue) : Tied(i, Position(d.event_id))

\* The committed rows of event_queue: what a reader outside the open
\* transaction sees.
CommittedQueue(j, q) == IF j = None THEN q ELSE (CHOOSE snap \in j : TRUE).event_queue

CommittedJobId(j, q, e) ==
    {CommittedQueue(j, q)[i].job_id :
        i \in {k \in 1..Len(CommittedQueue(j, q)) : CommittedQueue(j, q)[k].id = e}}

\* C29 as stated: once an event has a job id, no step gives it another one.
C29_JobIdSetOnce ==
    [][\A e \in 1..MaxEvents :
          \A b \in CommittedJobId(journal, event_queue, e),
             a \in CommittedJobId(journal', event_queue', e) :
              b # None => a = b]_vars

\* C29, amended: a committed job id of an event is never taken away, and it
\* changes only when the event is replayed after a crash that interrupted
\* its handling: new_job_for_event then attaches the new job, and the job
\* attached before stays in the jobs table.
C29_JobIdRebinding ==
    [][\A e \in 1..MaxEvents :
          \A b \in CommittedJobId(journal, event_queue, e),
             a \in CommittedJobId(journal', event_queue', e) :
              (b # None /\ a # b) =>
                  /\ a # None
                  /\ e \in interrupted'
                  /\ \A old \in b, new \in a :
                        /\ old < new
                        /\ \E j \in jobs' : j.id = old
                        /\ \E j \in jobs' : j.id = new]_vars

C29_Witness ==
    /\ journal = None
    /\ \E e \in 1..MaxEvents, old \in 1..MaxJobs, new \in 1..MaxJobs :
          /\ old < new
          /\ e \in interrupted
          /\ CommittedJobId(journal, event_queue, e) = {Some(new)}
          /\ \E k \in 1..Len(jobEvent) : jobEvent[k] = [job |-> old, event |-> e]
          /\ \E j \in jobs : j.id = old

\* ------------------------------------- claims on the store's queue operations

Calls(op) == call'.n = call.n + 1 /\ call'.op = op

JobRow(js, id) == {j \in js : j.id = id}

JobIdsIn(js) == {j.id : j \in js}

\* C15: a job is created with finished_utc absent; it stays absent over
\* every step that is not job_finished with its id; job_finished with its id
\* makes it present; once present it stays present; and created_utc is not
\* later than finished_utc.
C15_JobLifecycle ==
    /\ [](\A j \in jobs : \A t \in j.finished_utc : j.created_utc <= t)
    /\ [][/\ \A j \in jobs' : j.id \notin JobIdsIn(jobs) => j.finished_utc = None
          /\ \A j \in jobs : \E k \in JobRow(jobs', j.id) :
                /\ k.created_utc = j.created_utc
                /\ j.finished_utc # None => k.finished_utc # None
                /\ (j.finished_utc = None /\ ~(Calls("job_finished") /\ call'.id = j.id))
                      => k.finished_utc = None
                /\ (Calls("job_finished") /\ call'.id = j.id) => k.finished_utc # None]_vars

C15_Witness ==
    /\ call.op = "job_finished"
    /\ \E j \in JobRow(jobs, call.id) : \E t \in j.finished_utc : j.created_utc < t
    /\ \E j \in jobs : j.finished_utc = None

\* C16 as stated: new_job_for_event with an event id that is not in the
\* queue leaves no job row behind.
C16_NoJobWithoutEvent ==
    (call.op = "new_job_for_event" /\ call.before = None) => JobRow(jobs, nextJob) = {}

\* C16 as amended: new_job_for_event always leaves exactly one new job row;
\* when the event id is in the queue that event, and no other, carries the
\* job's id afterwards; when it is not, the UPDATE matches no row, the queue
\* is unchanged and the job row stays, bound to no event.
C16_JobCreatedWithBinding ==
    [][Calls("new_job_for_event") =>
          /\ \E j \in jobs' : /\ j.id \notin JobIdsIn(jobs)
                               /\ jobs' = jobs \cup {j}
                               /\ j.finished_utc = None
                               /\ Len(event_queue') = Len(event_queue)
                               /\ \A i \in 1..Len(event_queue) :
                                     event_queue'[i] =
                                        IF event_queue[i].id = call'.id
                                        THEN [event_queue[i] EXCEPT !.job_id = Some(j.id)]
                                        ELSE event_queue[i]
          /\ ~HasEvent(event_queue, call'.id) => event_queue' = event_queue]_vars

C16_Witness ==
    /\ call.op = "new_job_for_event" /\ call.before = None
    /\ JobRow(jobs, nextJob) # {}
    /\ Len(event_queue) > 0
    /\ \A i \in 1..Len(event_queue) : event_queue[i].job_id # Some(nextJob)

\* C17 as stated: job_finished on a job that is already finished changes
\* nothing: its finished timestamp stays the one the first call set.
C17_JobFinishedIdempotent ==
    [][(Calls("job_finished") /\ call'.before # None) => jobs' = jobs]_vars

\* C17 as amended: job_finished changes nothing but the finished_utc of the
\* job with the given id, which it sets to the time of this call, also when
\* it was set before; so a second call leaves it present, and not earlier.
C17_JobFinishedRestamps ==
    [][Calls("job_finished") =>
          /\ event_queue' = event_queue
          /\ jobs' = {IF j.id = call'.id THEN [j EXCEPT !.finished_utc = Some(clock)]
                                         ELSE j : j \in jobs}
          /\ \A j \in JobRow(jobs', call'.id) : \A t \in call'.before :
                \E u \in j.finished_utc : t <= u]_vars

C17_Witness ==
    /\ call.op = "job_finished"
    /\ \E j \in JobRow(jobs, call.id) :
          \E t \in call.before : \E u \in j.finished_utc : t < u

\* C18: delete_event removes the event with the given id and nothing else;
\* with an id that is not in the queue, a second call for the same id
\* included, it leaves every event, every job and queued_event_count as
\* they were.
C18_DeleteEventFrame ==
    [][Calls("delete_event") =>
          /\ jobs' = jobs
          /\ ~HasEvent(event_queue', call'.id)
          /\ \A i \in 1..Len(event_queue) :
                event_queue[i].id # call'.id =>
                   \E k \in 1..Len(event_queue') : event_queue'[k] = event_queue[i]
          /\ QueuedEventCount(event_queue') =
                QueuedEventCount(event_queue)
                   - (IF HasEvent(event_queue, call'.id) THEN 1 ELSE 0)
          /\ ~HasEvent(event_queue, call'.id) => event_queue' = event_queue]_vars

C18_Witness ==
    /\ call.op = "delete_event" /\ call.before = None
    /\ call.id <= nextEvent
    /\ Len(event_queue) > 0

\* -------------------------------------- claims on the store's data operations

Count(seq, x) == Cardinality({i \in 1..Len(seq) : seq[i] = x})

SameMultiset(s, t) ==
    /\ Len(s) = Len(t)
    /\ \A i \in 1..Len(s) : Count(s, s[i]) = Count(t, s[i])

StoredUnder(baseline_commit, candidate_commit) ==
    {x \in stored : /\ x.baseline_commit = baseline_commit
                    /\ x.candidate_commit = candidate_commit}

\* C13: comparison_result for a pair returns what store_comparison_result
\* was given for it: the same diffs as a multiset, every field equal, and
\* the same missing-scenario list; the column holds NULL exactly when the
\* list given was empty, and NULL reads back as the empty list.
C13_ComparisonRoundTrip ==
    /\ \A i \in 1..Len(comparison_runs) :
          \A x \in StoredUnder(comparison_runs[i].baseline_commit,
                               comparison_runs[i].candidate_commit) :
              (comparison_runs[i].scenarios_missing_in_baseline = None)
                 = (x.scenarios_missing = <<>>)
    /\ call.op = "comparison_result" =>
          \A x \in StoredUnder(call.arg[1], call.arg[2]) :
              \E r \in call.ret :
                  /\ SameMultiset(r.diffs, x.diffs)
                  /\ r.scenarios_missing_in_baseline = x.scenarios_missing

C13_Witness ==
    /\ call.op = "comparison_result"
    /\ \E x \in StoredUnder(call.arg[1], call.arg[2]) : \E r \in call.ret :
          /\ Len(x.diffs) = 2
          /\ r.diffs # x.diffs
          /\ x.scenarios_missing = <<>>
    /\ \E x \in stored : x.scenarios_missing = <<"bar", "baz">>

CreatedUtcOf(bench_run_id) ==
    (CHOOSE r \in {bench_runs[i] : i \in 1..Len(bench_runs)} : r.id = bench_run_id).created_utc

\* C19: result_history(cutoff) returns the results of the runs created
\* strictly after cutoff, all of them and no others, those of an earlier
\* store_run_results call before those of a later one, which is the order
\* of the runs' creation times.
C19_ResultHistory ==
    call.op = "result_history" =>
        LET after == SelectSeq(bench_results,
                               LAMBDA r : CreatedUtcOf(r.bench_run_id) > call.arg)
        IN  /\ call.ret = [i \in 1..Len(after) |->
                              [name |-> after[i].name, result |-> after[i].result]]
            /\ \A i, j \in 1..Len(after) :
                  i < j => CreatedUtcOf(after[i].bench_run_id)
                              <= CreatedUtcOf(after[j].bench_run_id)

C19_Witness ==
    /\ call.op = "result_history"
    /\ Len(bench_runs) = 3
    /\ bench_runs[1].created_utc = call.arg
    /\ \E i \in 1..Len(bench_results) : bench_results[i].bench_run_id = 1
    /\ Len(call.ret) >= 2
    /\ call.ret[1].result # call.ret[Len(call.ret)].result

\* --------------------------------------------- claims on the bench pipeline

Statuses == {"Pending", "Success", "Failure"}

LastStatus(t) ==
    LET set == SelectSeq(t, LAMBDA e : e \in Statuses)
    IN  IF set = <<>> THEN "none" ELSE set[Len(set)]

CommentStepDone == Did("update_comment") \/ Did("store_result_comment_id")

\* C4 as stated (for runs without a crash or an injected error, where it
\* already fails): a run for a commit pair the runner was already invoked for
\* does not invoke the runner.
C4_RunnerAtMostOnce ==
    (bcrashes = 0 /\ bfaults = 0 /\ bp.hadRun) =>
        ~Did("run_candidate") /\ ~Did("run_base")

\* C4 as amended: a run for a commit pair whose comparison is stored does
\* not invoke the runner, on either side, and comments the stored comparison.
C4_NoRerunOnceStored ==
    bp.hadStored =>
        /\ ~Did("run_candidate") /\ ~Did("run_base")
        /\ bp.pc \in {"comment_lookup", "update_comment", "create_comment",
                       "store_comment_id", "success"} => bp.result = "Ok"

C4_Witness == bp.hadStored /\ bp.ret = "Ok" /\ CommentStepDone

\* C5: once a run for a PR number has returned Ok after its comment step, a
\* later run for that PR never calls create_comment, and the comment it
\* updates is the one remembered for the PR.
C5_CommentIdempotence ==
    bp.hadSuccess =>
        /\ ~Did("create_comment")
        /\ bp.pc \notin {"create_comment", "store_comment_id"}
        /\ (bp.pc = "idle" /\ bp.ret = "Ok") => Did("update_comment")
        /\ Did("update_comment") =>
              \E id \in bp.cid :
                  /\ comments[id] = bp.pr
                  /\ \E i \in 1..Len(result_comments) :
                        result_comments[i] = [pr_number |-> bp.pr, comment_id |-> id]

C5_Witness == bp.hadSuccess /\ Did("update_comment") /\ bp.ret = "Ok"

\* C6: with crashes and replays as the only disturbance (no call returns an
\* error), at most one result comment is ever created on a pull request.
C6_AtMostOneComment ==
    bfaults = 0 =>
        \A pr \in PrNumbers :
            Cardinality({i \in 1..Len(comments) : comments[i] = pr}) <= 1

\* C7: bench_pr never sets the status Failure, and a run that has returned
\* after completing its comment step set Success last, on the candidate,
\* whether the comparison was Ok or Err.
C7_StatusSuccess ==
    /\ ~Did("Failure")
    /\ \A c \in Commits : commit_status[c] # "Failure"
    /\ (bp.pc = "idle" /\ CommentStepDone) =>
          /\ LastStatus(trace) = "Success"
          /\ commit_status[bp.cand_sha] = "Success"

C7_Witness ==
    /\ bp.pc = "idle" /\ CommentStepDone
    /\ bp.result = "Err"
    /\ LastStatus(trace) = "Success"

Computing ==
    bp.pc \in {"history", "run_candidate", "run_base", "compare", "write_logs",
               "store_comparison"}

RowsUnder(baseline_commit, candidate_commit) ==
    {i \in 1..Len(comparison_runs) :
        /\ comparison_runs[i].baseline_commit = baseline_commit
        /\ comparison_runs[i].candidate_commit = candidate_commit}

RowsOfPr(pr_number) ==
    {i \in 1..Len(result_comments) : result_comments[i].pr_number = pr_number}

\* C20: over bench_pr runs each PR number has at most one stored comment
\* id and each comment id one PR; the stored id is that of a comment on that
\* PR; result_comment_id returned the stored id to a run that updates and
\* absent to a run that creates; and store_result_comment_id is called only
\* after that lookup returned absent and the comment was created.
C20_CommentIdOneToOne ==
    /\ \A pr \in PrNumbers : Cardinality(RowsOfPr(pr)) <= 1
    /\ \A i, j \in 1..Len(result_comments) :
          result_comments[i].comment_id = result_comments[j].comment_id => i = j
    /\ \A i \in 1..Len(result_comments) :
          /\ result_comments[i].comment_id \in 1..Len(comments)
          /\ comments[result_comments[i].comment_id] = result_comments[i].pr_number
    /\ bp.pc = "update_comment" =>
          \E i \in RowsOfPr(bp.pr) : bp.cid = Some(result_comments[i].comment_id)
    /\ bp.pc \in {"create_comment", "store_comment_id"} => RowsOfPr(bp.pr) = {}
    /\ Did("store_result_comment_id") =>
          /\ Did("create_comment") /\ ~Did("update_comment")
          /\ Cardinality(RowsOfPr(bp.pr)) = 1

C20_Witness ==
    /\ RowsOfPr(1) # {} /\ RowsOfPr(2) # {}
    /\ Did("update_comment")
    /\ bp.ret = "Ok"

CommentPosted == Did("create_comment") \/ Did("update_comment")

Before(first, then) ==
    \A i, j \in 1..Len(trace) : (trace[i] = first /\ trace[j] = then) => i < j

ThisPair == <<bp.base_sha, bp.cand_sha>>

\* C22: in a run whose fresh comparison succeeded, store_comparison_result
\* has committed before create_comment or update_comment is attempted; every
\* pair whose comment posting failed after a fresh, successful comparison
\* has its comparison in the store; and a later run for such a pair does not
\* invoke the runner and, once its lookup has returned, uses the stored
\* comparison.
C22_StoreBeforeComment ==
    /\ Before("store_comparison_result", "create_comment")
    /\ Before("store_comparison_result", "update_comment")
    /\ (bp.pc \in {"update_comment", "create_comment"} /\ bp.result = "Ok") =>
          RowsUnder(bp.base_sha, bp.cand_sha) # {}
    /\ \A p \in bp.postFailed : RowsUnder(p[1], p[2]) # {}
    /\ (bp.pc # "idle" /\ ThisPair \in bp.postFailed) =>
          /\ ~Did("run_candidate") /\ ~Did("run_base")
          /\ ~Computing
          /\ Did("comparison_result") => bp.cached # None

C22_Witness ==
    /\ ThisPair \in bp.postFailed
    /\ bp.cached # None
    /\ CommentPosted
    /\ bp.ret = "Ok"

benchEffects ==
    <<comparison_runs, scenario_diffs, result_comments, comments, commit_status, benched,
      succeeded>>

\* C26: a bench_pr call whose baseline branch is not main returns Ok at once:
\* it sets no commit status, reads and writes no table, invokes no runner and
\* creates or updates no comment; every such effect belongs to a run whose
\* baseline branch is main.
C26_NonMainRefused ==
    /\ [](bp.base_branch \notin {"", "main"} =>
             (bp.pc = "idle" /\ bp.ret = "Ok" /\ trace = <<>>))
    /\ [][/\ (runs' # runs /\ bp'.base_branch # "main") =>
                (bp'.pc = "idle" /\ bp'.ret = "Ok" /\ UNCHANGED benchEffects)
          /\ (benchEffects' # benchEffects \/ (trace' # trace /\ trace' # <<>>)) =>
                bp.base_branch = "main"]_vars

C26_Witness ==
    /\ bp.base_branch = "dev" /\ bp.pc = "idle" /\ bp.ret = "Ok"
    /\ Len(comparison_runs) = 1 /\ Len(comments) = 1
    /\ runs = 2

\* C31: in a run in which the runner failed on the candidate or on the
\* baseline, a results file could not be read, or cachegrind_diff failed for
\* a scenario, the comparison is the error branch, store_comparison_result
\* is not called, and no comparison run and no scenario diff is stored for
\* the run's commit pair.
C31_AllOrNothing ==
    bp.why # "none" =>
        /\ bp.cmp = "Err"
        /\ bp.pc # "store_comparison" /\ ~Did("store_comparison_result")
        /\ bp.pc \in {"comment_lookup", "update_comment", "create_comment",
                       "store_comment_id", "success"} => bp.result = "Err"
        /\ RowsUnder(bp.base_sha, bp.cand_sha) = {}
        /\ \A i \in 1..Len(scenario_diffs) :
              \E k \in 1..Len(comparison_runs) :
                  /\ comparison_runs[k].id = scenario_diffs[i].comparison_run_id
                  /\ k \notin RowsUnder(bp.base_sha, bp.cand_sha)

C31_Witness ==
    /\ bp.why = "cachegrind_diff"
    /\ Did("run_candidate") /\ Did("run_base") /\ Did("logs.md")
    /\ CommentPosted
    /\ bp.ret = "Ok"
    /\ Len(comparison_runs) = 1

\* C33: a run that has set Pending and then fails in comparison_result,
\* result_comment_id, update_comment, create_comment or
\* store_result_comment_id returns the error at once and sets no further
\* status: Pending is the last status it set on the candidate.
C33_PendingRemains ==
    /\ []((bp.pc = "idle" /\ bp.ret = "Err") =>
             /\ LastStatus(trace) = "Pending"
             /\ ~Did("Success")
             /\ commit_status[bp.cand_sha] = "Pending")
    /\ [][(bfaults' # bfaults
             /\ bp.pc \in {"lookup", "comment_lookup", "update_comment", "create_comment",
                            "store_comment_id"}) =>
               /\ bp'.pc = "idle" /\ bp'.ret = "Err"
               /\ commit_status' = commit_status
               /\ commit_status[bp.cand_sha] = "Pending"]_vars

C33_Witness ==
    /\ bp.pc = "idle" /\ bp.ret = "Err"
    /\ Did("create_comment") /\ ~Did("store_result_comment_id")
    /\ commit_status[bp.cand_sha] = "Pending"

\* C34: within one run, Pending is the first effect, before the cache lookup
\* and before any runner invocation; the candidate is measured before the
\* baseline, and the baseline is not measured when the candidate run failed;
\* the comment is created or updated only after the comparison step (lookup,
\* runs, logs.md, store) is over; Success is set last, after update_comment,
\* or after create_comment and store_result_comment_id.
C34_EffectOrder ==
    /\ trace # <<>> => (trace[1] = "Pending" /\ Cardinality({i \in 1..Len(trace) : trace[i] = "Pending"}) = 1)
    /\ Before("Pending", "comparison_result") /\ Before("Pending", "run_candidate")
    /\ Before("run_candidate", "run_base")
    /\ Did("run_base") => Did("run_candidate")
    /\ bp.why = "run_candidate" => (~Did("run_base") /\ bp.pc # "run_base")
    /\ \A c \in {"create_comment", "update_comment"} :
          /\ Before("comparison_result", c)
          /\ Before("run_candidate", c) /\ Before("run_base", c)
          /\ Before("logs.md", c) /\ Before("logs.md failed", c)
          /\ Before("store_comparison_result", c)
          /\ Before(c, "Success")
          /\ Did(c) => Did("comparison_result")
    /\ (Computing \/ bp.pc \in {"pending", "lookup"}) => ~CommentPosted
    /\ Before("create_comment", "store_result_comment_id")
    /\ Before("store_result_comment_id", "Success")
    /\ Did("Success") =>
          /\ trace[Len(trace)] = "Success"
          /\ Did("update_comment") \/ (Did("create_comment") /\ Did("store_result_comment_id"))

C34_Witness ==
    trace = <<"Pending", "comparison_result", "run_candidate", "run_base", "logs.md",
              "store_comparison_result", "create_comment", "store_result_comment_id",
              "Success">>

\* ------------------------------------------------- claims on the handlers

Handled == hv.kind # "none"

\* C8 as stated: whichever of the three handlers ran, bench_pr was called
\* only for an author association of OWNER, MEMBER or COLLABORATOR.
C8_TrustFilterAllHandlers ==
    (Handled /\ hv.out.bench # None) =>
        hv.payload.author_association \in {"OWNER", "MEMBER", "COLLABORATOR"}

\* C8 as amended: the comment and the review handler call bench_pr only for
\* an author association of OWNER, MEMBER or COLLABORATOR; the PR-update
\* handler admits an event on its action and the equal clone URLs alone.
C8_TrustFilter ==
    (Handled /\ hv.out.bench # None) =>
        IF hv.kind \in {"issue_comment", "pull_request_review"}
        THEN hv.payload.author_association \in {"OWNER", "MEMBER", "COLLABORATOR"}
        ELSE hv.payload.pull_request.head.repo = hv.payload.pull_request.base.repo

C8_Witness ==
    /\ Handled /\ hv.out.bench # None
    /\ hv.kind = "pull_request_review"
    /\ hv.payload.author_association = "COLLABORATOR"

\* C9: handle_pr_update returns Ok without calling bench_pr, or the platform,
\* when the head and base clone URLs differ; it calls bench_pr only for the
\* actions opened and synchronize and equal clone URLs.
C9_ForkRejected ==
    (Handled /\ hv.kind = "pull_request") =>
        LET pr == hv.payload.pull_request
        IN  /\ (pr.head.repo # None /\ pr.base.repo # None
                 /\ pr.head.repo # pr.base.repo) => hv.out = Ignored
            /\ hv.out.bench # None =>
                  /\ hv.payload.action \in {"opened", "synchronize"}
                  /\ pr.head.repo # None /\ pr.head.repo = pr.base.repo

C9_Witness ==
    /\ Handled /\ hv.kind = "pull_request"
    /\ hv.payload.parses /\ hv.payload.action = "synchronize"
    /\ hv.payload.pull_request.head.repo = Some("fork")
    /\ hv.payload.pull_request.base.repo = Some("upstream")
    /\ hv.out = Ignored

CommentPasses ==
    /\ hv.payload.parses
    /\ hv.payload.is_pr
    /\ hv.payload.action = "created"
    /\ hv.payload.login # "rustls-bench"
    /\ hv.payload.author_association \in {"OWNER", "MEMBER", "COLLABORATOR"}

Mentions(body) == \E i \in 1..Len(body) : body[i] = "@rustls-bench"

Commands(body) ==
    \E i \in 1..(Len(body) - 1) : body[i] = "@rustls-bench" /\ body[i + 1] = "bench"

\* C24 as stated: the comment handler calls bench_pr if and only if the
\* comment is on a pull request, was created, is not the bot's own, comes
\* from a trusted author and contains "@rustls-bench bench".
C24_BenchIffFilters ==
    (Handled /\ hv.kind = "issue_comment") =>
        (hv.out.bench # None <=> (CommentPasses /\ Commands(hv.payload.body)))

\* C24, amended: the comment handler calls bench_pr only if all five
\* conditions hold, and then exactly when the platform returned the pull
\* request and both its sides carry a clone URL (otherwise it returns an
\* error without calling bench_pr); a comment that fails one of the first
\* four conditions, or does not mention "@rustls-bench", makes no platform
\* call and returns Ok.
C24_CommentFilter ==
    (Handled /\ hv.kind = "issue_comment") =>
        /\ hv.out.bench # None <=>
              /\ CommentPasses /\ Commands(hv.payload.body)
              /\ hv.platform.ok
              /\ hv.platform.pr.head.repo # None /\ hv.platform.pr.base.repo # None
        /\ (CommentPasses /\ Commands(hv.payload.body) /\ hv.out.bench = None) =>
              hv.out = [bench |-> None, get_pr |-> TRUE, help |-> FALSE, ret |-> "Err"]
        /\ (~CommentPasses \/ ~Mentions(hv.payload.body)) =>
              hv.out = [bench |-> None, get_pr |-> FALSE, help |-> FALSE, ret |-> "Ok"]
        /\ hv.out.help => (CommentPasses /\ Mentions(hv.payload.body)
                             /\ ~Commands(hv.payload.body))

C24_Witness ==
    /\ Handled /\ hv.kind = "issue_comment"
    /\ hv.out.bench # None
    /\ hv.payload.body = <<"please", "@rustls-bench", "bench", "now">>

\* C25: the review handler calls bench_pr only for the action submitted and
\* the state approved, and the run it starts uses the commit_id of the review,
\* whatever the head sha of the pull request, as the candidate of its cache
\* key and of the comparison it stores, for the candidate benchmark run and
\* for both commit-status updates.
C25_ReviewedCommit ==
    (Handled /\ hv.kind = "pull_request_review") =>
        \A b \in hv.out.bench :
            /\ hv.payload.action = "submitted" /\ hv.payload.state = "approved"
            /\ LET uses == BenchPrCommits(b.branches)
               IN  /\ uses.pending = hv.payload.commit_id
                   /\ uses.success = hv.payload.commit_id
                   /\ uses.cache_key[2] = hv.payload.commit_id
                   /\ uses.store_key[2] = hv.payload.commit_id
                   /\ uses.run_candidate = hv.payload.commit_id
                   /\ uses.cache_key[1] = hv.payload.pull_request.base.sha

C25_Witness ==
    /\ Handled /\ hv.kind = "pull_request_review"
    /\ hv.out.bench # None
    /\ hv.payload.commit_id # hv.payload.pull_request.head.sha

\* C32: each of the three handlers, given a payload that does not parse as
\* the shape it expects, returns Ok without calling the platform and without
\* calling bench_pr, hence with no commit status, comment, runner invocation
\* or store write.
C32_InvalidPayload ==
    (Handled /\ ~hv.payload.parses) =>
        /\ hv.kind \in {"issue_comment", "pull_request_review", "pull_request"}
        /\ hv.out = [bench |-> None, get_pr |-> FALSE, help |-> FALSE, ret |-> "Ok"]

C32_Witness ==
    /\ Handled /\ ~hv.payload.parses
    /\ hv.kind = "issue_comment"
    /\ hv.payload.is_pr /\ hv.payload.action = "created"
    /\ hv.payload.login = "alice" /\ hv.payload.author_association = "OWNER"
    /\ hv.payload.body = <<"@rustls-bench", "bench">>
    /\ hv.out.ret = "Ok"

\* ------------------------------- claims on significance and comparison

HistoryLen(historical_results, name) ==
    Cardinality({i \in 1..Len(historical_results) : historical_results[i].name = name})

IsConstant(historical_results, name) ==
    \A i, j \in 1..Len(historical_results) :
        (historical_results[i].name = name /\ historical_results[j].name = name) =>
            historical_results[i].result = historical_results[j].result

Floor == [k |-> "num", n |-> 1, d |-> 500]

\* C27: calculate_significance_thresholds returns no entry for a scenario
\* with fewer than 10 values in the history, and a diff that compare_results
\* then produces for such a scenario carries the threshold 0.002.
C27_MinimumSize ==
    /\ call.op = "calculate_significance_thresholds" =>
          \A name \in Scenarios :
              HistoryLen(call.arg, name) < 10 => name \notin DOMAIN call.ret
    /\ (call.op = "compare_results" /\ call.ret.ok) =>
          \A i \in 1..Len(call.ret.diffs) :
              HistoryLen(call.arg.historical_results, call.ret.diffs[i].scenario_name) < 10
                  => call.ret.diffs[i].significance_threshold = Floor

C27_Witness ==
    /\ call.op = "compare_results" /\ call.ret.ok
    /\ "bar" \in DOMAIN call.arg.significance_thresholds
    /\ HistoryLen(call.arg.historical_results, "foo") = 9
    /\ \E i \in 1..Len(call.ret.diffs) :
          /\ call.ret.diffs[i].scenario_name = "foo"
          /\ call.ret.diffs[i].significance_threshold = Floor

\* C28: for a scenario with at least 10 values in the history, all equal,
\* whatever the value (0 included), the threshold is the floor 0.002.
C28_Floor ==
    call.op = "calculate_significance_thresholds" =>
        \A name \in Scenarios :
            (HistoryLen(call.arg, name) >= 10 /\ IsConstant(call.arg, name)) =>
                (name \in DOMAIN call.ret /\ call.ret[name] = Floor)

C28_Witness ==
    /\ call.op = "calculate_significance_thresholds"
    /\ HistoryLen(call.arg, "foo") = 11 /\ IsConstant(call.arg, "foo")
    /\ \E i \in 1..Len(call.arg) : call.arg[i].name = "foo" /\ call.arg[i].result = 0
    /\ call.ret["foo"] = Floor

DiffsOf(result, scenario) ==
    {i \in 1..Len(result.diffs) : result.diffs[i].scenario_name = scenario}

MissingOf(result, scenario) ==
    {i \in 1..Len(result.missing) : result.missing[i] = scenario}

\* C30: when compare_results returns Ok, a scenario of the candidate that the
\* baseline has too appears once in the diffs, with the baseline's and the
\* candidate's value, and not in the missing list; a scenario of the candidate
\* that the baseline lacks appears once in the missing list and not in the
\* diffs; a scenario the candidate lacks appears in neither.
C30_ComparePartition ==
    (call.op = "compare_results" /\ call.ret.ok) =>
        \A scenario \in Scenarios :
            LET inCandidate == scenario \in DOMAIN call.arg.candidate
                inBaseline == scenario \in DOMAIN call.arg.baseline
                d == DiffsOf(call.ret, scenario)
                m == MissingOf(call.ret, scenario)
            IN  /\ Cardinality(d) = (IF inCandidate /\ inBaseline THEN 1 ELSE 0)
                /\ Cardinality(m) = (IF inCandidate /\ ~inBaseline THEN 1 ELSE 0)
                /\ \A i \in d :
                      /\ call.ret.diffs[i].baseline_result = call.arg.baseline[scenario]
                      /\ call.ret.diffs[i].candidate_result = call.arg.candidate[scenario]

C30_Witness ==
    /\ call.op = "compare_results" /\ call.ret.ok
    /\ DOMAIN call.arg.candidate = {"foo", "bar"}
    /\ DOMAIN call.arg.baseline = {"foo", "baz"}
    /\ DiffsOf(call.ret, "foo") # {} /\ MissingOf(call.ret, "bar") # {}
    /\ DiffsOf(call.ret, "baz") = {} /\ MissingOf(call.ret, "baz") = {}

====
